---- MODULE Spec2Model ----
(***************************************************************************)
(* hyprpier: dock-identity triggered profile switching.                    *)
(*                                                                         *)
(* The model covers the decision engine (src/apply.rs), the binding store  *)
(* (src/metadata.rs), the hardware enumerator (src/dock.rs), the control   *)
(* daemon (src/daemon.rs) and the interactive binding editors of           *)
(* src/tui/app.rs.  Strings that the code compares or sorts (sysfs entry   *)
(* names) are sequences of character codes; Option<T> is a set with at     *)
(* most one element.                                                       *)
(***************************************************************************)
EXTENDS Integers, Sequences, FiniteSets, TLC

VARIABLES
    sysfs,      \* /sys/bus/thunderbolt/devices: entry name -> Option<attributes>
    store,      \* names of the profile documents in the profile store
    mdFile,     \* Option<Metadata>: the persisted binding record (.metadata.json)
    now,        \* SystemTime::now() in seconds
    pc,         \* per process: position in apply_auto / apply_profile_inner
    call,       \* per process: locals of the running call
    fx,         \* per process: the effects of the running call, in order
    win,        \* history: effects of the calls made since hardware/bindings last changed
    dialog,     \* Option<ConfirmAction>: the TUI's open confirmation dialog
    dstate,     \* daemon: "Idle" (blocked in accept) or "Handling"
    backlog,    \* daemon: connections queued in the listen backlog, oldest first
    conns,      \* every connection made so far: [status, open, cmd, io]
    dlog,       \* daemon: the phases of the connection being handled, in order
    sockFile,   \* Option<instance>: whose socket the file at the socket path is
    inst,       \* per daemon instance: position in Daemon::new / run, listener
    client,     \* a notify() caller: position, command, connection, response
    files,      \* the profile directory: file name -> file object, object -> content
    saver,      \* per writing process: position in Metadata::save / Profile::save
    reader,     \* what a loading process read at the final path
    op          \* the last store or validator operation: its arguments and result

vars == <<sysfs, store, mdFile, now, pc, call, fx, win, dialog,
          dstate, backlog, conns, dlog, sockFile, inst, client,
          files, saver, reader, op>>

engineVars == <<pc, call, fx>>
daemonVars == <<dstate, backlog, conns, dlog>>
diskVars == <<store, mdFile>>
lifeVars == <<sockFile, inst, client>>
fileVars == <<files, saver, reader, op>>

----------------------------------------------------------------------------
(* Bounds *)

NumSlots == 2
MaxConns == 2
MaxTime == 1
WriteLen == 3

----------------------------------------------------------------------------
(* Option<T> and small helpers *)

None == {}
Some(x) == {x}
Unwrap(o) == CHOOSE x \in o : TRUE

Range(s) == {s[i] : i \in 1..Len(s)}

Inc(n) == IF n < 2 THEN n + 1 ELSE n

\* str::cmp on byte strings: lexicographic order
StrLess(a, b) ==
    \E i \in 1..Len(b) :
        /\ \A j \in 1..(i - 1) : j <= Len(a) /\ a[j] = b[j]
        /\ (i > Len(a) \/ a[i] < b[i])

EndsWith(s, suffix) ==
    /\ Len(s) >= Len(suffix)
    /\ SubSeq(s, Len(s) - Len(suffix) + 1, Len(s)) = suffix

----------------------------------------------------------------------------
(* Names *)

\* profile names; no document is stored for the last one
Profiles == {"A", "B", "C"}
Stored == {"A", "B"}

\* dock identities (unique_id)
Uuids == {"U1", "U2"}

DASH == 45
ZERO == 48
Domain0 == <<100, 111, 109, 97, 105, 110, 48>>   \* "domain0"
HostSuffix == <<DASH, ZERO>>                     \* "-0"
DevName(i) == <<ZERO, DASH, ZERO + i>>           \* "0-0", "0-1", "0-2", ...
HostName == DevName(0)
SlotNames == {DevName(i) : i \in 1..NumSlots}
EntryNames == {Domain0, HostName} \cup SlotNames

Procs == {"cli", "daemon"}

----------------------------------------------------------------------------
(* src/metadata.rs *)

MetadataDefault ==
    [active_profile |-> None, last_modified |-> None,
     dock_profiles |-> << >>, undocked_profile |-> None]

\* Metadata::load, lines 24-31: no file is the default record and never an
\* error; a file that is there can fail to be read
Metadata_load_outcomes(file) == IF file = None THEN {TRUE} ELSE {TRUE, FALSE}

\* mutant: the record is not read, the default stands in for it
Metadata_load_default(file) == MetadataDefault

Metadata_load(file) == IF file = None THEN MetadataDefault ELSE Unwrap(file)

touch(md, t) == [md EXCEPT !.last_modified = Some(t)]

\* mutant: a new record is made for the active profile
set_active_fresh(md, profile, t) ==
    touch([MetadataDefault EXCEPT !.active_profile = profile], t)

set_active(md, profile, t) == touch([md EXCEPT !.active_profile = profile], t)

\* mutant: the map is replaced by the new binding
link_dock_only(md, uuid, profile, t) ==
    touch([md EXCEPT !.dock_profiles = [u \in {uuid} |-> profile]], t)

link_dock(md, uuid, profile, t) ==
    touch([md EXCEPT !.dock_profiles =
              [u \in (DOMAIN md.dock_profiles) \cup {uuid} |->
                  IF u = uuid THEN profile ELSE md.dock_profiles[u]]], t)

unlink_dock(md, uuid, t) ==
    touch([md EXCEPT !.dock_profiles =
              [u \in (DOMAIN md.dock_profiles) \ {uuid} |-> md.dock_profiles[u]]], t)

get_dock_profile(md, uuid) ==
    IF uuid \in DOMAIN md.dock_profiles THEN Some(md.dock_profiles[uuid]) ELSE None

\* mutant: the first entry of the map is returned, matching or not
get_profile_dock_any(md, profile) == DOMAIN md.dock_profiles

\* mutant: the reverse lookup finds no dock
get_profile_dock_none(md, profile) == {}

\* HashMap iteration order is unspecified: any matching identity may come first
get_profile_dock_candidates(md, profile) ==
    {u \in DOMAIN md.dock_profiles : md.dock_profiles[u] = profile}

----------------------------------------------------------------------------
(* src/dock.rs *)

Contains(s, c) == c \in Range(s)

\* mutant: no entry is the host controller
Device_peripheral(fs, e) ==
    [uuid |-> IF Unwrap(fs[e]).unique_id = None THEN ""
              ELSE Unwrap(Unwrap(fs[e]).unique_id),
     is_host |-> FALSE,
     device_id |-> e]

Device(fs, e) ==
    [uuid |-> IF Unwrap(fs[e]).unique_id = None THEN ""
              ELSE Unwrap(Unwrap(fs[e]).unique_id),
     is_host |-> EndsWith(e, HostSuffix),
     device_id |-> e]

RECURSIVE SortByDeviceId(_)
SortByDeviceId(S) ==
    IF S = {} THEN << >>
    ELSE LET m == CHOOSE d \in S : \A o \in S \ {d} : StrLess(d.device_id, o.device_id)
         IN  <<m>> \o SortByDeviceId(S \ {m})

list_all_devices(fs) ==
    SortByDeviceId({Device(fs, e) : e \in {n \in DOMAIN fs : fs[n] # None /\ Contains(n, DASH)}})

is_dock(d) == ~d.is_host

detect_docks(fs) == SelectSeq(list_all_devices(fs), is_dock)

\* list_all_devices as the code runs it, over the entries in the order
\* read_dir hands them out

\* slice::sort_by on device_id (a stable sort): insertion from the left
RECURSIVE InsertByDeviceId(_, _)
InsertByDeviceId(d, seq) ==
    IF seq = << >> THEN <<d>>
    ELSE IF StrLess(d.device_id, Head(seq).device_id) THEN <<d>> \o seq
    ELSE <<Head(seq)>> \o InsertByDeviceId(d, Tail(seq))

RECURSIVE InsertionSort(_)
InsertionSort(seq) ==
    IF seq = << >> THEN << >>
    ELSE InsertByDeviceId(seq[Len(seq)], InsertionSort(SubSeq(seq, 1, Len(seq) - 1)))

\* mutant: the devices stay in the order they were read in
sort_none(seq) == seq

\* dock.rs line 74
sort_by_device_id(seq) == InsertionSort(seq)

\* dock.rs lines 43-71: the loop over the entries; names without '-' are skipped
RECURSIVE push_devices(_, _)
push_devices(fs, order) ==
    IF order = << >> THEN << >>
    ELSE (IF Contains(Head(order), DASH) THEN <<Device(fs, Head(order))>> ELSE << >>)
             \o push_devices(fs, Tail(order))

list_all_devices_read(fs, order) == sort_by_device_id(push_devices(fs, order))

detect_docks_read(fs, order) == SelectSeq(list_all_devices_read(fs, order), is_dock)

\* the orders read_dir can hand the present entries out in
ReadOrders(fs) ==
    LET present == {n \in DOMAIN fs : fs[n] # None}
        k == Cardinality(present)
    IN  {o \in [1..k -> present] : \A i, j \in 1..k : o[i] = o[j] => i = j}

\* one call of list_all_devices and of detect_docks
list_devices_call ==
    /\ \E order \in ReadOrders(sysfs) :
          op' = [kind |-> "devices", order |-> order,
                 result |-> list_all_devices_read(sysfs, order),
                 docks |-> detect_docks_read(sysfs, order)]
    /\ UNCHANGED <<sysfs, store, mdFile, now, lifeVars, engineVars, win, dialog, daemonVars,
                   files, saver, reader>>

----------------------------------------------------------------------------
(* src/apply.rs: apply_auto, the decision *)

\* mutant: the loop keeps going and the last linked dock wins
RECURSIVE LastLinked(_, _)
LastLinked(md, docks) ==
    IF docks = << >> THEN None
    ELSE IF LastLinked(md, Tail(docks)) # None
         THEN LastLinked(md, Tail(docks))
         ELSE get_dock_profile(md, Head(docks).uuid)

\* the `for d in &docks` loop with its `if let Some(profile_name)`: the
\* binding of the first dock, in list order, that has one
RECURSIVE FirstLinked(_, _)
FirstLinked(md, docks) ==
    IF docks = << >> THEN None
    ELSE IF get_dock_profile(md, Head(docks).uuid) # None
         THEN get_dock_profile(md, Head(docks).uuid)
         ELSE FirstLinked(md, Tail(docks))

\* mutant: the already-active check is missing
NeverActive(current, target) == FALSE

\* `if current_profile == Some(profile_name) { return Ok(()) }`
AlreadyActive(current, target) == current = target

\* mutant: the undocked fallback is not consulted
apply_auto_decide_no_fallback(md, docks) ==
    LET current == md.active_profile
        linked == FirstLinked(md, docks)
    IN  IF linked # None
        THEN IF AlreadyActive(current, linked)
             THEN [kind |-> "skip", target |-> linked, summary |-> ""]
             ELSE [kind |-> "apply", target |-> linked, summary |-> "Dock Connected"]
        ELSE [kind |-> "none", target |-> None, summary |-> ""]

\* mutant: with nothing to choose from, the first profile is applied
apply_auto_decide_default(md, docks) ==
    LET current == md.active_profile
        linked == FirstLinked(md, docks)
    IN  IF linked # None
        THEN IF AlreadyActive(current, linked)
             THEN [kind |-> "skip", target |-> linked, summary |-> ""]
             ELSE [kind |-> "apply", target |-> linked, summary |-> "Dock Connected"]
        ELSE IF md.undocked_profile # None
        THEN IF AlreadyActive(current, md.undocked_profile)
             THEN [kind |-> "skip", target |-> md.undocked_profile, summary |-> ""]
             ELSE [kind |-> "apply", target |-> md.undocked_profile, summary |-> "Undocked"]
        ELSE [kind |-> "apply", target |-> Some("A"), summary |-> "Undocked"]

\* what apply_auto decides from the record and the docks it has read
apply_auto_decide(md, docks) ==
    LET current == md.active_profile
        linked == FirstLinked(md, docks)
    IN  IF linked # None
        THEN IF AlreadyActive(current, linked)
             THEN [kind |-> "skip", target |-> linked, summary |-> ""]
             ELSE [kind |-> "apply", target |-> linked, summary |-> "Dock Connected"]
        ELSE IF md.undocked_profile # None
        THEN IF AlreadyActive(current, md.undocked_profile)
             THEN [kind |-> "skip", target |-> md.undocked_profile, summary |-> ""]
             ELSE [kind |-> "apply", target |-> md.undocked_profile, summary |-> "Undocked"]
        ELSE [kind |-> "none", target |-> None, summary |-> ""]

----------------------------------------------------------------------------
(* Calls: one record of locals per process *)

CallNone ==
    [kind |-> "none", name |-> None, no_runtime |-> FALSE, md |-> None,
     current |-> None, target |-> None, result |-> "none", msg |-> << >>,
     stale |-> FALSE]

WinZero == [switches |-> 0, notes |-> 0]

InCall(p) == call[p].kind = "auto" /\ pc[p] \in {"apply", "commit_load", "commit_save"}

\* hardware or the binding record changed under the calls in flight: a new
\* window starts, and the calls caught in the middle belong to neither
Disturb ==
    /\ win' = WinZero
    /\ call' = [p \in Procs |-> IF InCall(p) THEN [call[p] EXCEPT !.stale = TRUE]
                                ELSE call[p]]

Return(p, result, msg) ==
    /\ pc' = [pc EXCEPT ![p] = "ret"]
    /\ call' = [call EXCEPT ![p].result = result, ![p].msg = msg]

----------------------------------------------------------------------------
(* src/apply.rs: apply_auto and apply_profile_inner, step by step *)

\* apply_auto, lines 57-105: load the record, enumerate the docks, decide,
\* notify.  loadOk = FALSE: the record file exists and cannot be read;
\* readOk = FALSE: read_dir of the topology directory fails.
apply_auto(p) ==
    /\ pc[p] = "auto"
    /\ \E loadOk \in Metadata_load_outcomes(mdFile), readOk \in BOOLEAN :
        LET md == Metadata_load(mdFile)
            d == apply_auto_decide(md, detect_docks(sysfs))
            seen == [call[p] EXCEPT !.current = md.active_profile, !.target = d.target]
        IN  IF ~loadOk \/ ~readOk
            THEN /\ pc' = [pc EXCEPT ![p] = "ret"]
                 /\ call' = [call EXCEPT ![p].result = "Err",
                                         ![p].msg = IF ~loadOk
                                                    THEN <<"Failed to read metadata">>
                                                    ELSE <<"Failed to read Thunderbolt sysfs">>]
                 /\ UNCHANGED <<fx, win>>
            ELSE IF d.kind = "apply"
            THEN /\ pc' = [pc EXCEPT ![p] = "apply"]
                 /\ call' = [call EXCEPT ![p] = [seen EXCEPT !.name = d.target,
                                                             !.no_runtime = FALSE]]
                 /\ fx' = [fx EXCEPT ![p] = Append(@, <<"notify", d.summary, Unwrap(d.target)>>)]
                 /\ win' = [win EXCEPT !.notes = Inc(@)]
            ELSE /\ pc' = [pc EXCEPT ![p] = "ret"]
                 /\ call' = [call EXCEPT ![p] = [seen EXCEPT !.result = "Ok"]]
                 /\ UNCHANGED <<fx, win>>
    /\ UNCHANGED <<sysfs, diskVars, now, fileVars, lifeVars, dialog, daemonVars>>

\* mutant: the result of apply_runtime is dropped
PropagatesNoPush(stage) == stage \in {"load", "write"}

\* mutant: resolve_monitor_names is called with `?` like its neighbours
PropagatesAll(stage) == stage \in {"load", "resolve", "write", "push"}

\* which collaborator failures end apply_profile_inner: Profile::load (line
\* 20), write_config (line 32) and apply_runtime (line 36) carry a `?`;
\* resolve_monitor_names (line 24) is matched with `if let Err` and goes on
Propagates(stage) == stage \in {"load", "write", "push"}

\* apply_profile_inner, lines 20-37: load the profile, resolve the monitor
\* names, write the config, push it at runtime.  The calls made and how each
\* ended are appended to fx; `ports` are the monitor names the config uses.
apply_profile_inner(p) ==
    /\ pc[p] = "apply"
    /\ \E resolveOk, writeOk, running, pushOk \in BOOLEAN :
        LET name == Unwrap(call[p].name)
            ports == IF resolveOk THEN "resolved" ELSE "stored"
            push == ~call[p].no_runtime /\ running
            ab_load == name \notin store /\ Propagates("load")
            ab_resolve == ~ab_load /\ ~resolveOk /\ Propagates("resolve")
            ab_write == ~ab_load /\ ~ab_resolve /\ ~writeOk /\ Propagates("write")
            ab_push == /\ ~ab_load /\ ~ab_resolve /\ ~ab_write
                       /\ push /\ ~pushOk /\ Propagates("push")
            ev_load == << <<IF name \in store THEN "load" ELSE "load_err", name>> >>
            ev_resolve == IF ab_load THEN << >>
                          ELSE << <<IF resolveOk THEN "resolve" ELSE "resolve_err", name>> >>
            ev_write == IF ab_load \/ ab_resolve THEN << >>
                        ELSE << <<IF writeOk THEN "write" ELSE "write_err", name, ports>> >>
            ev_push == IF ab_load \/ ab_resolve \/ ab_write THEN << >>
                       ELSE IF ~push THEN << <<"nopush", name>> >>
                       ELSE << <<IF pushOk THEN "push" ELSE "push_err", name, ports>> >>
            msg == IF ab_load THEN <<"Failed to read profile: ", name>>
                   ELSE IF ab_resolve THEN <<"resolve_monitor_names failed">>
                   ELSE IF ab_write THEN <<"write_config failed">>
                   ELSE <<"apply_runtime failed">>
        IN  /\ fx' = [fx EXCEPT ![p] = @ \o ev_load \o ev_resolve \o ev_write \o ev_push]
            /\ IF ab_load \/ ab_resolve \/ ab_write \/ ab_push
               THEN Return(p, "Err", msg)
               ELSE /\ pc' = [pc EXCEPT ![p] = "commit_load"]
                    /\ UNCHANGED call
    /\ UNCHANGED <<sysfs, store, mdFile, now, fileVars, lifeVars, win, dialog, daemonVars>>

\* apply_profile_inner, line 40: `Metadata::load()?`
apply_profile_inner_load(p) ==
    /\ pc[p] = "commit_load"
    /\ pc' = [pc EXCEPT ![p] = "commit_save"]
    /\ call' = [call EXCEPT ![p].md = Some(Metadata_load(mdFile))]
    /\ fx' = [fx EXCEPT ![p] = Append(@, <<"md_load">>)]
    /\ UNCHANGED <<sysfs, diskVars, now, fileVars, lifeVars, win, dialog, daemonVars>>

\* apply_profile_inner, lines 41-47: set_active and Metadata::save.
\* saveOk = FALSE: writing or renaming the temp file fails.
apply_profile_inner_save(p) ==
    /\ pc[p] = "commit_save"
    /\ \E saveOk \in BOOLEAN :
        LET name == Unwrap(call[p].name)
            md == set_active(Unwrap(call[p].md), Some(name), now)
            before == Metadata_load(mdFile).active_profile
        IN  IF saveOk
            THEN /\ mdFile' = Some(md)
                 /\ fx' = [fx EXCEPT ![p] = Append(@, <<"save", name>>)]
                 /\ win' = IF call[p].kind = "auto" /\ ~call[p].stale
                              /\ before # md.active_profile
                           THEN [win EXCEPT !.switches = Inc(@)] ELSE win
                 /\ Return(p, "Ok", << >>)
            ELSE /\ fx' = [fx EXCEPT ![p] = Append(@, <<"save_err", name>>)]
                 /\ Return(p, "Err", <<"Failed to write metadata">>)
                 /\ UNCHANGED <<mdFile, win>>
    /\ UNCHANGED <<sysfs, store, now, fileVars, lifeVars, dialog, daemonVars>>

EngineStep(p) ==
    \/ apply_auto(p)
    \/ apply_profile_inner(p)
    \/ apply_profile_inner_load(p)
    \/ apply_profile_inner_save(p)

----------------------------------------------------------------------------
(* src/main.rs: the command line *)

\* `hyprpier apply --auto`
CliApplyAuto ==
    /\ pc["cli"] = "idle"
    /\ pc' = [pc EXCEPT !["cli"] = "auto"]
    /\ call' = [call EXCEPT !["cli"] = [CallNone EXCEPT !.kind = "auto"]]
    /\ fx' = [fx EXCEPT !["cli"] = << >>]
    /\ UNCHANGED <<sysfs, diskVars, now, fileVars, lifeVars, win, dialog, daemonVars>>

\* `hyprpier apply <name> [--no-runtime]`: a direct request rewrites the
\* binding record's active profile, so it starts a new window
CliApplyNamed ==
    /\ pc["cli"] = "idle"
    /\ \E name \in Profiles, no_runtime \in BOOLEAN :
        /\ pc' = [pc EXCEPT !["cli"] = "apply"]
        /\ call' = [p \in Procs |->
                      IF p = "cli"
                      THEN [CallNone EXCEPT !.kind = "named", !.name = Some(name),
                                            !.no_runtime = no_runtime]
                      ELSE IF InCall(p) THEN [call[p] EXCEPT !.stale = TRUE]
                      ELSE call[p]]
        /\ fx' = [fx EXCEPT !["cli"] = << >>]
        /\ win' = WinZero
    /\ UNCHANGED <<sysfs, diskVars, now, fileVars, lifeVars, dialog, daemonVars>>

\* the process exits with the call's result
CliExit ==
    /\ pc["cli"] = "ret"
    /\ pc' = [pc EXCEPT !["cli"] = "idle"]
    /\ call' = [call EXCEPT !["cli"] = CallNone]
    /\ fx' = [fx EXCEPT !["cli"] = << >>]
    /\ UNCHANGED <<sysfs, diskVars, now, fileVars, lifeVars, win, dialog, daemonVars>>

----------------------------------------------------------------------------
(* The environment: hardware, clock, profile store *)

Connected == {Unwrap(Unwrap(sysfs[e]).unique_id) :
                 e \in {n \in SlotNames : sysfs[n] # None /\ Unwrap(sysfs[n]).unique_id # None}}

\* a dock is attached to a free port; its unique_id attribute may be unreadable
Plug ==
    /\ \E slot \in SlotNames, id \in {None} \cup {Some(u) : u \in Uuids \ Connected} :
        /\ sysfs[slot] = None
        /\ sysfs' = [sysfs EXCEPT ![slot] = Some([unique_id |-> id])]
    /\ Disturb
    /\ UNCHANGED <<diskVars, now, fileVars, lifeVars, pc, fx, dialog, daemonVars>>

Unplug ==
    /\ \E slot \in SlotNames :
        /\ sysfs[slot] # None
        /\ sysfs' = [sysfs EXCEPT ![slot] = None]
    /\ Disturb
    /\ UNCHANGED <<diskVars, now, fileVars, lifeVars, pc, fx, dialog, daemonVars>>

\* Profile::save of a profile document
Profile_save ==
    /\ \E name \in Profiles : store' = store \cup {name}
    /\ UNCHANGED <<sysfs, mdFile, now, fileVars, lifeVars, engineVars, win, dialog, daemonVars>>

\* Profile::delete: nothing to do when the file does not exist
Profile_delete ==
    /\ \E name \in Profiles : store' = store \ {name}
    /\ UNCHANGED <<sysfs, mdFile, now, fileVars, lifeVars, engineVars, win, dialog, daemonVars>>

----------------------------------------------------------------------------
(* src/tui/app.rs: the interactive editors of the binding record *)

\* Metadata::save from the TUI process
TuiSave(md) ==
    /\ mdFile' = Some(md)
    /\ Disturb
    /\ UNCHANGED <<sysfs, store, now, fileVars, lifeVars, pc, fx, daemonVars>>

TuiNoSave == UNCHANGED <<sysfs, diskVars, now, fileVars, lifeVars, engineVars, win, daemonVars>>

\* handle_profile_list_keys, key 'u' on a listed profile
TuiKeyUndocked ==
    /\ dialog = None
    /\ \E name \in store :
        LET md == Metadata_load(mdFile)
            linked == get_profile_dock_candidates(md, name)
        IN  IF md.undocked_profile = Some(name)
            THEN /\ TuiSave([md EXCEPT !.undocked_profile = None])
                 /\ UNCHANGED dialog
            ELSE IF linked # {}
            THEN /\ \E dock_uuid \in linked :
                      dialog' = Some([action |-> "SetUndocked", profile_name |-> name,
                                      dock_uuid |-> dock_uuid])
                 /\ TuiNoSave
            ELSE /\ TuiSave([md EXCEPT !.undocked_profile = Some(name)])
                 /\ UNCHANGED dialog

\* handle_profile_editor_keys, key 'l' in the editor of profile `name`
TuiKeyLink ==
    /\ dialog = None
    /\ \E name \in Profiles :
        LET md == Metadata_load(mdFile)
            linked == get_profile_dock_candidates(md, name)
            docks == detect_docks(sysfs)
        IN  IF linked # {}
            THEN /\ \E uuid \in linked : TuiSave(unlink_dock(md, uuid, now))
                 /\ UNCHANGED dialog
            ELSE IF docks = << >>
            THEN /\ TuiNoSave
                 /\ UNCHANGED dialog
            ELSE LET dock_uuid == Head(docks).uuid
                     ask(action) == Some([action |-> action, profile_name |-> name,
                                          dock_uuid |-> dock_uuid])
                 IN  IF md.undocked_profile = Some(name)
                     THEN dialog' = ask("LinkRemoveUndocked") /\ TuiNoSave
                     ELSE IF /\ get_dock_profile(md, dock_uuid) # None
                             /\ get_dock_profile(md, dock_uuid) # Some(name)
                     THEN dialog' = ask("LinkSteal") /\ TuiNoSave
                     ELSE /\ TuiSave(link_dock(md, dock_uuid, name, now))
                          /\ UNCHANGED dialog

\* handle_thunderbolt_keys, key 'x' on a dock that is linked
TuiKeyUnlink ==
    /\ dialog = None
    /\ \E uuid \in DOMAIN Metadata_load(mdFile).dock_profiles :
        dialog' = Some([action |-> "UnlinkDock", profile_name |-> "", dock_uuid |-> uuid])
    /\ TuiNoSave

\* execute_confirm_action: the user answers 'y'
execute_confirm_action ==
    /\ dialog # None
    /\ LET a == Unwrap(dialog)
           md == Metadata_load(mdFile)
       IN  CASE a.action = "UnlinkDock" ->
                    TuiSave(unlink_dock(md, a.dock_uuid, now))
             [] a.action = "SetUndocked" ->
                    TuiSave([unlink_dock(md, a.dock_uuid, now)
                                EXCEPT !.undocked_profile = Some(a.profile_name)])
             [] a.action = "LinkRemoveUndocked" ->
                    TuiSave(link_dock([md EXCEPT !.undocked_profile = None],
                                      a.dock_uuid, a.profile_name, now))
             [] a.action = "LinkSteal" ->
                    TuiSave(link_dock(md, a.dock_uuid, a.profile_name, now))
    /\ dialog' = None

\* cancel_confirm_action: the user answers 'n'
cancel_confirm_action ==
    /\ dialog # None
    /\ dialog' = None
    /\ TuiNoSave

----------------------------------------------------------------------------
(* The profile directory as files.  A file name is a sequence of character  *)
(* codes; the directory maps the names that exist to file objects (inodes), *)
(* a file object holds the tokens written to it so far.                     *)

DOT == 46

JSON == <<106, 115, 111, 110>>                   \* "json"
TMP == <<116, 109, 112>>                         \* "tmp"
JSON_TMP == JSON \o <<DOT>> \o TMP               \* "json.tmp"
METADATA_JSON ==                                 \* ".metadata.json"
    <<DOT, 109, 101, 116, 97, 100, 97, 116, 97, DOT>> \o JSON

\* std::path: the last '.' of a file name that is not its first character
LastDot(f) ==
    LET dots == {i \in 2..Len(f) : f[i] = DOT}
    IN  IF dots = {} THEN 0 ELSE CHOOSE i \in dots : \A j \in dots : j <= i

\* Path::extension and Path::file_stem
extension(f) == IF LastDot(f) = 0 THEN None ELSE Some(SubSeq(f, LastDot(f) + 1, Len(f)))
file_stem(f) == IF LastDot(f) = 0 THEN f ELSE SubSeq(f, 1, LastDot(f) - 1)

\* Path::with_extension
with_extension(f, ext) == file_stem(f) \o <<DOT>> \o ext

\* mutant: the path is made of the name up to its last dot
profile_path_stem(name) == file_stem(name) \o <<DOT>> \o JSON

\* config::metadata_path and config::profile_path, inside the profile directory
metadata_path == METADATA_JSON
profile_path(name) == name \o <<DOT>> \o JSON

----------------------------------------------------------------------------
(* serde_json: a document is a sequence of tokens, an opening brace, one    *)
(* <<key, value>> pair per field in the order of the struct, a closing      *)
(* brace.  A value is null, a string, a map, a list or an object.           *)

JOpen == <<"{">>
JClose == <<"}">>
JNull == <<"null">>
JStr(x) == <<"str", x>>
JMap(f) == <<"map", f>>
JList(l) == <<"list", l>>
JObj(r) == <<"obj", r>>

\* Option<String>: None is written as null
JOptStr(o) == IF o = None THEN JNull ELSE JStr(Unwrap(o))
JOptObj(o) == IF o = None THEN JNull ELSE JObj(Unwrap(o))

\* serde_json::to_string_pretty(&Metadata): every field is written
Metadata_to_string(md) ==
    << JOpen,
       <<"active_profile", JOptStr(md.active_profile)>>,
       <<"last_modified", JOptStr(md.last_modified)>>,
       <<"dock_profiles", JMap(md.dock_profiles)>>,
       <<"undocked_profile", JOptStr(md.undocked_profile)>>,
       JClose >>

\* serde_json::to_string_pretty(&Profile)
Profile_to_string(profile) ==
    << JOpen,
       <<"name", JStr(profile.name)>>,
       <<"description", JOptStr(profile.description)>>,
       <<"monitors", JList(profile.monitors)>>,
       <<"workspaces", JList(profile.workspaces)>>,
       <<"lid_switch", JOptObj(profile.lid_switch)>>,
       JClose >>

\* the text is one JSON object: braces at both ends, pairs in between, no
\* key twice
IsObject(t) ==
    /\ Len(t) >= 2
    /\ t[1] = JOpen
    /\ t[Len(t)] = JClose
    /\ \A i \in 2..(Len(t) - 1) : Len(t[i]) = 2 /\ t[i][1] \notin {"null", "str", "map", "list", "obj"}
    /\ \A i, j \in 2..(Len(t) - 1) : t[i][1] = t[j][1] => i = j

HasKey(t, key) == \E i \in 2..(Len(t) - 1) : t[i][1] = key

\* the value of a key; #[serde(default)]: a missing key has the default
Field(t, key, default) ==
    IF HasKey(t, key) THEN t[CHOOSE i \in 2..(Len(t) - 1) : t[i][1] = key][2] ELSE default

IsOptStr(v) == v = JNull \/ v[1] = "str"
IsOptObj(v) == v = JNull \/ v[1] = "obj"
FromOpt(v) == IF v = JNull THEN None ELSE Some(v[2])

\* serde_json::from_str::<Metadata>: Option<Metadata>, None for a text that
\* does not parse.  Every field has #[serde(default)]; unknown keys are skipped.
Metadata_from_str(t) ==
    IF ~IsObject(t) THEN None
    ELSE LET active == Field(t, "active_profile", JNull)
             modified == Field(t, "last_modified", JNull)
             docks == Field(t, "dock_profiles", JMap(<< >>))
             undocked == Field(t, "undocked_profile", JNull)
         IN  IF /\ IsOptStr(active) /\ IsOptStr(modified) /\ IsOptStr(undocked)
                /\ docks[1] = "map"
             THEN Some([active_profile |-> FromOpt(active),
                        last_modified |-> FromOpt(modified),
                        dock_profiles |-> docks[2],
                        undocked_profile |-> FromOpt(undocked)])
             ELSE None

\* serde_json::from_str::<Profile>: `name` is required, the other fields
\* have #[serde(default)]
Profile_from_str(t) ==
    IF ~IsObject(t) \/ ~HasKey(t, "name") THEN None
    ELSE LET name == Field(t, "name", JNull)
             description == Field(t, "description", JNull)
             monitors == Field(t, "monitors", JList(<< >>))
             workspaces == Field(t, "workspaces", JList(<< >>))
             lid_switch == Field(t, "lid_switch", JNull)
         IN  IF /\ name[1] = "str" /\ IsOptStr(description) /\ IsOptObj(lid_switch)
                /\ monitors[1] = "list" /\ workspaces[1] = "list"
             THEN Some([name |-> name[2],
                        description |-> FromOpt(description),
                        monitors |-> monitors[2],
                        workspaces |-> workspaces[2],
                        lid_switch |-> FromOpt(lid_switch)])
             ELSE None

Writers == {"w1", "w2"}

NoFiles == [exists |-> FALSE, dir |-> << >>, obj |-> << >>]

SaverIdle ==
    [pc |-> "idle", path |-> << >>, temp |-> << >>, doc |-> << >>, fd |-> None, at |-> 0,
     result |-> "none"]

OpNone == [kind |-> "none"]

\* the file objects still in use: linked in the directory or held open
Linked(dir) == {dir[n] : n \in DOMAIN dir}

\* a file object that is not in use
FreshObj(used) == CHOOSE i \in 1..(Cardinality(used) + 1) : i \notin used

Put(dir, name, id) == [n \in DOMAIN dir \cup {name} |-> IF n = name THEN id ELSE dir[n]]
Remove(dir, name) == [n \in DOMAIN dir \ {name} |-> dir[n]]

\* objects nobody links or holds open are gone
Keep(obj, ids) == [i \in DOMAIN obj \cap ids |-> obj[i]]

\* write(2) of tokens at offset k of a file (the first token at position
\* k + 1); a gap before them reads as zeros
WriteAt(content, k, tokens) ==
    LET end == k + Len(tokens)
    IN  [i \in 1..(IF Len(content) > end THEN Len(content) ELSE end) |->
            IF i > k /\ i <= end THEN tokens[i - k]
            ELSE IF i <= Len(content) THEN content[i] ELSE <<"\\0">>]

\* the content of the file at a name
ReadFile(f, name) == f.obj[f.dir[name]]

----------------------------------------------------------------------------
(* Metadata::save and Profile::save, step by step *)

PName(c) == <<c>>

ProfileNew(name) ==
    [name |-> name, description |-> None, monitors |-> << >>, workspaces |-> << >>,
     lid_switch |-> None]

\* the documents of the runs: the ones on disk before, and what each
\* writer saves over them
OldRecord ==
    [active_profile |-> None, last_modified |-> Some(0),
     dock_profiles |-> [u \in {"U1"} |-> "A"], undocked_profile |-> None]
OldProfile == ProfileNew(PName(97))
RecordOf(w) == [OldRecord EXCEPT !.active_profile = Some(IF w = "w1" THEN "A" ELSE "B")]
ProfileOf(w) == [OldProfile EXCEPT !.description = Some(w)]

\* mutant: the document is written at its final path
temp_in_place(path, ext) == path

\* metadata.rs line 41, profile.rs line 135: the temp file next to the final path
temp_path(path, ext) == with_extension(path, ext)

\* what a save writes and where: Metadata::save (lines 37-41) or
\* Profile::save (lines 130-135) of the profile "a"
SaveJobs(w) ==
    {[path |-> metadata_path, temp |-> temp_path(metadata_path, TMP),
      doc |-> Metadata_to_string(RecordOf(w))],
     [path |-> profile_path(PName(97)), temp |-> temp_path(profile_path(PName(97)), JSON_TMP),
      doc |-> Profile_to_string(ProfileOf(w))]}

OpenObjs(sv) == UNION {sv[w].fd : w \in Writers}

\* the file system after a step: directory, contents, objects pruned
Files(dir, obj, sv) == [exists |-> TRUE, dir |-> dir, obj |-> Keep(obj, Linked(dir) \cup OpenObjs(sv))]

SaveFrame == UNCHANGED <<sysfs, diskVars, now, lifeVars, engineVars, win, dialog, daemonVars,
                         reader, op>>

\* save begins: ensure_profile_dir, the document is serialized.  The
\* processes of a run save the document op names.
save_begin(w) ==
    /\ saver[w].pc = "idle"
    /\ \E job \in {j \in SaveJobs(w) : j.path = op.path} :
          saver' = [saver EXCEPT ![w] = [SaverIdle EXCEPT !.pc = "create", !.path = job.path,
                                                          !.temp = job.temp, !.doc = job.doc]]
    /\ files' = [files EXCEPT !.exists = TRUE]
    /\ SaveFrame

SaveFails(w) == [saver EXCEPT ![w].pc = "done", ![w].fd = None, ![w].result = "Err"]

\* fs::write, File::create(temp): the file is created, or the file that is
\* there is truncated
save_create(w) ==
    /\ saver[w].pc = "create"
    /\ \E ok \in BOOLEAN :
        LET temp == saver[w].temp
            there == temp \in DOMAIN files.dir
            id == IF there THEN files.dir[temp]
                  ELSE FreshObj(Linked(files.dir) \cup OpenObjs(saver))
            sv == [saver EXCEPT ![w].pc = "write", ![w].fd = Some(id), ![w].at = 0]
        IN  IF ok
            THEN /\ saver' = sv
                 /\ files' = Files(Put(files.dir, temp, id),
                                   [i \in DOMAIN files.obj \cup {id} |->
                                       IF i = id THEN << >> ELSE files.obj[i]], sv)
            ELSE /\ saver' = SaveFails(w)
                 /\ files' = Files(files.dir, files.obj, SaveFails(w))
    /\ SaveFrame

\* fs::write, write_all: the next tokens go to the open file, wherever its
\* name is by now; after the last one the file is closed
save_write(w) ==
    /\ saver[w].pc = "write"
    /\ \E ok \in BOOLEAN :
        LET id == Unwrap(saver[w].fd)
            doc == saver[w].doc
            from == saver[w].at
            to == IF from + WriteLen < Len(doc) THEN from + WriteLen ELSE Len(doc)
            last == to = Len(doc)
            sv == [saver EXCEPT ![w].at = to,
                                ![w].pc = IF last THEN "rename" ELSE "write",
                                ![w].fd = IF last THEN None ELSE @]
        IN  IF ok
            THEN /\ saver' = sv
                 /\ files' = Files(files.dir,
                                   [files.obj EXCEPT
                                       ![id] = WriteAt(@, from, SubSeq(doc, from + 1, to))], sv)
            ELSE /\ saver' = SaveFails(w)
                 /\ files' = Files(files.dir, files.obj, SaveFails(w))
    /\ SaveFrame

\* fs::rename(temp, path): the final name now refers to the file that was at
\* the temp name; it fails when no file is at the temp name
save_rename(w) ==
    /\ saver[w].pc = "rename"
    /\ \E ok \in BOOLEAN :
        LET temp == saver[w].temp
            sv == [saver EXCEPT ![w].pc = "done", ![w].result = "Ok"]
        IN  IF ok /\ temp \in DOMAIN files.dir
            THEN /\ saver' = sv
                 /\ files' = Files(Put(Remove(files.dir, temp), saver[w].path, files.dir[temp]),
                                   files.obj, sv)
            ELSE /\ saver' = SaveFails(w)
                 /\ UNCHANGED files
    /\ SaveFrame

\* save returns
save_return(w) ==
    /\ saver[w].pc = "done"
    /\ saver' = [saver EXCEPT ![w] = SaverIdle]
    /\ UNCHANGED files
    /\ SaveFrame

\* Metadata::load and Profile::load: fs::read_to_string of the final path;
\* what was read is kept, "absent" when no file is there
load_file ==
    /\ \E path \in {op.path} :
          reader' = Some([path |-> path,
                          text |-> IF path \in DOMAIN files.dir THEN ReadFile(files, path)
                                   ELSE <<"absent">>])
    /\ UNCHANGED <<sysfs, diskVars, now, lifeVars, engineVars, win, dialog, daemonVars,
                   files, saver, op>>

----------------------------------------------------------------------------
(* src/profile.rs: the profile store, one operation at a time *)

\* the names in use: "a", "a.b", "b"
StoreNames == {PName(97), <<97, DOT, 98>>, PName(98)}

\* what gets saved: two contents for "a", one for each other name
StoreProfiles ==
    {[ProfileNew(PName(97)) EXCEPT !.description = d] : d \in {None, Some("x")}}
        \cup {[ProfileNew(<<97, DOT, 98>>) EXCEPT !.description = Some("x")],
              [ProfileNew(PName(98)) EXCEPT !.monitors = <<"eDP-1">>,
                                            !.lid_switch = Some("ignore")]}

\* Profile::load on the files as they are: the profile, or the error
Profile_load(f, name) ==
    IF ~f.exists \/ profile_path(name) \notin DOMAIN f.dir
    THEN [ok |-> FALSE, err |-> "Failed to read profile"]
    ELSE LET parsed == Profile_from_str(ReadFile(f, profile_path(name)))
         IN  IF parsed = None
             THEN [ok |-> FALSE, err |-> "Failed to parse profile"]
             ELSE [ok |-> TRUE, profile |-> Unwrap(parsed)]

\* mutant: every file with the extension json is listed
is_listed_any_json(file) == extension(file) = Some(JSON)

\* list_profiles, lines 165-171: the extension is json and the stem does not
\* start with '.'
is_listed(file) ==
    /\ extension(file) = Some(JSON)
    /\ Head(file_stem(file)) # DOT

\* Vec::sort on the names
RECURSIVE SortNames(_)
SortNames(S) ==
    IF S = {} THEN << >>
    ELSE LET m == CHOOSE n \in S : \A o \in S \ {n} : StrLess(n, o)
         IN  <<m>> \o SortNames(S \ {m})

\* list_profiles on the files as they are; nothing when the directory is not there
list_profiles(f) ==
    IF ~f.exists THEN << >>
    ELSE SortNames({file_stem(n) : n \in {x \in DOMAIN f.dir : is_listed(x)}})

\* Object ids carry no meaning once no file is open: the objects are numbered
\* in the order of the names that hold them.
Renumber(f) ==
    LET names == SortNames(DOMAIN f.dir)
    IN  [exists |-> f.exists,
         dir |-> [n \in DOMAIN f.dir |-> CHOOSE i \in 1..Len(names) : names[i] = n],
         obj |-> [i \in 1..Len(names) |-> f.obj[f.dir[names[i]]]]]

\* a new file with the given text at a name of the directory
Create(f, name, text) ==
    LET id == FreshObj(Linked(f.dir))
        dir == Put(f.dir, name, id)
    IN  Renumber([exists |-> TRUE, dir |-> dir,
                  obj |-> [i \in Linked(dir) |-> IF i = id THEN text ELSE f.obj[i]]])

Unlink(f, name) ==
    Renumber([f EXCEPT !.dir = Remove(f.dir, name),
                       !.obj = Keep(f.obj, Linked(Remove(f.dir, name)))])

StoreFrame == UNCHANGED <<sysfs, mdFile, now, lifeVars, engineVars, win, dialog, daemonVars,
                          saver, reader>>

\* Profile::save, the whole of it.  "Ok": the temp file was written and
\* renamed onto the final path; "Err": fs::rename failed, the written temp
\* file is left.
Profile_save_whole ==
    /\ \E profile \in StoreProfiles, how \in {"Ok", "Err"} :
        LET path == profile_path(profile.name)
            temp == temp_path(path, JSON_TMP)
            text == Profile_to_string(profile)
            made == [files EXCEPT !.exists = TRUE]
        IN  /\ files' = IF how = "Ok" THEN Create(Unlink(made, temp), path, text)
                        ELSE Create(made, temp, text)
            /\ store' = IF how = "Ok" THEN store \cup {profile.name} ELSE store
            /\ op' = [kind |-> "save", name |-> profile.name, result |-> how,
                      arg |-> profile]
    /\ StoreFrame

\* Metadata::save, the whole of it, out of the same directory
Metadata_save_whole ==
    /\ \E ok \in BOOLEAN :
        LET temp == temp_path(metadata_path, TMP)
            text == Metadata_to_string(OldRecord)
            made == [files EXCEPT !.exists = TRUE]
        IN  /\ files' = IF ok THEN Create(Unlink(made, temp), metadata_path, text)
                        ELSE Create(made, temp, text)
            /\ op' = [kind |-> "save_metadata", name |-> << >>,
                      result |-> IF ok THEN "Ok" ELSE "Err", arg |-> OldRecord]
    /\ UNCHANGED store
    /\ StoreFrame

\* mutant: the file stays
remove_file_none(f, path) == f

\* fs::remove_file
remove_file(f, path) == Unlink(f, path)

\* Profile::delete, lines 144-151: nothing to do when no file is at the path;
\* rmOk = FALSE: remove_file fails
Profile_delete_whole ==
    /\ \E name \in StoreNames, rmOk \in BOOLEAN :
        LET path == profile_path(name)
            there == files.exists /\ path \in DOMAIN files.dir
        IN  /\ files' = IF there /\ rmOk THEN remove_file(files, path) ELSE files
            /\ store' = IF there /\ ~rmOk THEN store ELSE store \ {name}
            /\ op' = [kind |-> "delete", name |-> name,
                      result |-> IF there /\ ~rmOk THEN "Err" ELSE "Ok", arg |-> there]
    /\ StoreFrame

\* Profile::load
Profile_load_whole ==
    /\ \E name \in StoreNames :
          op' = [kind |-> "load", name |-> name, result |-> Profile_load(files, name),
                 arg |-> << >>]
    /\ UNCHANGED <<files, store>>
    /\ StoreFrame

\* list_profiles; readOk = FALSE: read_dir fails
list_profiles_whole ==
    /\ \E readOk \in BOOLEAN :
          op' = [kind |-> "list", name |-> << >>,
                 result |-> IF readOk \/ ~files.exists
                            THEN [ok |-> TRUE, names |-> list_profiles(files)]
                            ELSE [ok |-> FALSE, names |-> << >>],
                 arg |-> << >>]
    /\ UNCHANGED <<files, store>>
    /\ StoreFrame

----------------------------------------------------------------------------
(* src/profile.rs: validate_profile_name *)

\* a name is a sequence of chars (code points); a &str holds them in UTF-8
MAX_PROFILE_NAME_LENGTH == 100
SLASH == 47
BACKSLASH == 92

\* '<', '>', ':', '"', '|', '?', '*', '\0'
invalid_chars == {60, 62, 58, 34, 124, 63, 42, 0}

\* char::len_utf8
len_utf8(c) ==
    IF c < 128 THEN 1 ELSE IF c < 2048 THEN 2 ELSE IF c < 65536 THEN 3 ELSE 4

\* str::len: the length of the string in bytes
RECURSIVE str_len(_)
str_len(name) ==
    IF name = << >> THEN 0 ELSE len_utf8(Head(name)) + str_len(Tail(name))

\* str::contains of a char and of ".."
contains(name, c) == \E i \in 1..Len(name) : name[i] = c
contains_dotdot(name) == \E i \in 1..(Len(name) - 1) : name[i] = DOT /\ name[i + 1] = DOT

\* mutant: a name may start with '.'
validate_dot_allowed(name) ==
    IF name = << >> THEN "Profile name cannot be empty"
    ELSE IF str_len(name) > MAX_PROFILE_NAME_LENGTH
         THEN "Profile name too long (max 100 characters)"
    ELSE IF contains(name, SLASH) \/ contains(name, BACKSLASH)
         THEN "Profile name cannot contain path separators"
    ELSE IF contains_dotdot(name) THEN "Profile name cannot contain '..'"
    ELSE IF \E c \in invalid_chars : contains(name, c)
         THEN "Profile name contains invalid character"
    ELSE "Ok"

\* validate_profile_name: "Ok" or the message of the first check that fails
validate_profile_name(name) ==
    IF name = << >> THEN "Profile name cannot be empty"
    ELSE IF str_len(name) > MAX_PROFILE_NAME_LENGTH
         THEN "Profile name too long (max 100 characters)"
    ELSE IF Head(name) = DOT THEN "Profile name cannot start with '.'"
    ELSE IF contains(name, SLASH) \/ contains(name, BACKSLASH)
         THEN "Profile name cannot contain path separators"
    ELSE IF contains_dotdot(name) THEN "Profile name cannot contain '..'"
    ELSE IF \E c \in invalid_chars : contains(name, c)
         THEN "Profile name contains invalid character"
    ELSE "Ok"

\* the call of app.rs lines 324 and 622 on the name typed in the editor
validate_name ==
    /\ op.kind = "input"
    /\ op' = [kind |-> "validated", name |-> op.name,
              result |-> validate_profile_name(op.name)]
    /\ UNCHANGED <<sysfs, store, mdFile, now, lifeVars, engineVars, win, dialog, daemonVars,
                   files, saver, reader>>

----------------------------------------------------------------------------
(* src/tui/app.rs: the profile editor saves, the profile list deletes *)

\* Path::exists
path_exists(f, path) == f.exists /\ path \in DOMAIN f.dir

\* mutant: the editor saves without the check
editor_checks_none(name) == "Ok"

\* app.rs lines 622 and 324: the check in front of Profile::save
editor_checks(name) == validate_profile_name(name)

EditorFrame ==
    UNCHANGED <<sysfs, store, mdFile, now, lifeVars, engineVars, win, dialog, daemonVars,
                saver, reader>>

\* Profile::save of the editor's profile; ok = FALSE: fs::rename failed and
\* the written temp file is left
SaveProfile(f, name, ok) ==
    LET path == profile_path(name)
        temp == temp_path(path, JSON_TMP)
        text == Profile_to_string(ProfileNew(name))
        made == [f EXCEPT !.exists = TRUE]
    IN  IF ok THEN Create(Unlink(made, temp), path, text) ELSE Create(made, temp, text)

\* sync_inputs_to_profile and Profile::save, then the profile list; an error
\* of the save leaves the handler
editor_save(via) ==
    \E ok \in BOOLEAN :
        /\ files' = SaveProfile(files, op.name, ok)
        /\ op' = [op EXCEPT !.kind = IF ok THEN "list" ELSE "failed",
                            !.last = IF ok THEN via ELSE "save_err"]

\* handle_profile_editor_keys, key 's' (lines 618-651)
editor_key_s ==
    /\ op.kind = "editor"
    /\ IF editor_checks(op.name) # "Ok"
       THEN /\ op' = [op EXCEPT !.error = Some(editor_checks(op.name)), !.last = "rejected"]
            /\ files' = files
       ELSE IF op.original # Some(op.name) /\ path_exists(files, profile_path(op.name))
            THEN /\ op' = [op EXCEPT !.kind = "confirm", !.last = "ask"]
                 /\ files' = files
            ELSE editor_save("save")
    /\ EditorFrame

\* execute_confirm_action, ConfirmAction::OverwriteProfile (lines 321-333)
confirm_overwrite ==
    /\ op.kind = "confirm"
    /\ IF editor_checks(op.name) # "Ok"
       THEN /\ op' = [op EXCEPT !.kind = "editor", !.error = Some(editor_checks(op.name)),
                                !.last = "rejected"]
            /\ files' = files
       ELSE editor_save("overwrite")
    /\ EditorFrame

\* the dialog is answered with no: back in the editor
cancel_overwrite ==
    /\ op.kind = "confirm"
    /\ op' = [op EXCEPT !.kind = "editor", !.last = "cancel"]
    /\ UNCHANGED files
    /\ EditorFrame

\* execute_confirm_action, ConfirmAction::DeleteProfile (lines 315-320) of a
\* name of the profile list
confirm_delete ==
    /\ op.kind = "list"
    /\ \E i \in DOMAIN list_profiles(files), rmOk \in BOOLEAN :
        LET name == list_profiles(files)[i]
        IN  /\ files' = IF rmOk THEN remove_file(files, profile_path(name)) ELSE files
            /\ op' = [op EXCEPT !.deleted = Some(name),
                                !.last = IF rmOk THEN "delete" ELSE "delete_err"]
    /\ EditorFrame

\* Metadata::save of some other screen, out of the same directory
editor_metadata_save ==
    /\ op.kind \in {"editor", "list"}
    /\ \E ok \in BOOLEAN :
        LET temp == temp_path(metadata_path, TMP)
            text == Metadata_to_string(OldRecord)
            made == [files EXCEPT !.exists = TRUE]
        IN  /\ files' = IF ok THEN Create(Unlink(made, temp), metadata_path, text)
                        ELSE Create(made, temp, text)
            /\ op' = [op EXCEPT !.last = IF ok THEN "metadata" ELSE "metadata_err"]
    /\ EditorFrame

----------------------------------------------------------------------------
(* src/daemon.rs: the control daemon *)

\* what a client writes, as tokens; "\n" and " " are whitespace.  The empty
\* payload is a client that closed without writing.
WS == {"\n", " "}
REFRESH == <<"refresh">>
STATUS == <<"status">>
Payloads == {REFRESH, <<"status", "\n">>, <<"bogus", "\n">>, <<"\n">>, << >>}

\* str::trim: leading and trailing whitespace removed
RECURSIVE TrimStart(_)
TrimStart(s) == IF s # << >> /\ Head(s) \in WS THEN TrimStart(Tail(s)) ELSE s

RECURSIVE TrimEnd(_)
TrimEnd(s) ==
    IF s # << >> /\ s[Len(s)] \in WS THEN TrimEnd(SubSeq(s, 1, Len(s) - 1)) ELSE s

Trim(cmd) == TrimEnd(TrimStart(cmd))

Handling == {c \in 1..Len(conns) : conns[c].status = "handling"}
CurConn == CHOOSE c \in Handling : TRUE

Last(s) == s[Len(s)]

\* sent: the client has written its command (or will have by the time the
\* daemon reads); a client can also connect and stay silent
NewConn == [status |-> "queued", open |-> TRUE, cmd |-> None, io |-> "none", sent |-> TRUE]

\* a client connects and writes its command; the connection waits in the
\* listen backlog.  What the client wrote shows when the daemon reads it.
Connect ==
    /\ Len(conns) < MaxConns
    /\ conns' = Append(conns, NewConn)
    /\ backlog' = Append(backlog, Len(conns) + 1)
    /\ UNCHANGED <<sysfs, diskVars, now, fileVars, lifeVars, engineVars, win, dialog, dstate, dlog>>

\* a client connects and writes nothing for now
Connect_silent ==
    /\ Len(conns) < MaxConns
    /\ conns' = Append(conns, [NewConn EXCEPT !.sent = FALSE])
    /\ backlog' = Append(backlog, Len(conns) + 1)
    /\ UNCHANGED <<sysfs, diskVars, now, fileVars, lifeVars, engineVars, win, dialog, dstate, dlog>>

\* a silent client writes its command after all
ClientSend ==
    /\ \E c \in 1..Len(conns) :
          /\ conns[c].open
          /\ ~conns[c].sent
          /\ conns[c].status # "done"
          /\ conns' = [conns EXCEPT ![c].sent = TRUE]
    /\ UNCHANGED <<sysfs, diskVars, now, fileVars, lifeVars, engineVars, win, dialog, dstate,
                   backlog, dlog>>

\* the client's end of a connection is closed before the daemon is done with it
ClientClose ==
    /\ \E c \in 1..Len(conns) :
          /\ conns[c].open
          /\ conns[c].status # "done"
          /\ conns' = [conns EXCEPT ![c].open = FALSE]
    /\ UNCHANGED <<sysfs, diskVars, now, fileVars, lifeVars, engineVars, win, dialog, dstate,
                   backlog, dlog>>

\* mutant: connections are accepted while one is being handled
AlwaysAccept == TRUE

\* Daemon::run is blocked in listener.accept() only between two handle_client calls
InAccept == dstate = "Idle"

\* mutant: the error of handle_client is returned from run with `?`
run_propagates_client(kind) == kind = "client"

\* Daemon::run, lines 93-99: the error of handle_client and the error of
\* accept are printed, neither leaves the loop
run_propagates(kind) == FALSE

\* mutant: the connection made last is served first
accept_newest(q) == q[Len(q)]

\* listener.accept(), line 91: the oldest pending connection
accept_next(q) == Head(q)

\* Daemon::run: accept() returns a queued connection
Daemon_run ==
    /\ InAccept
    /\ backlog # << >>
    /\ LET c == accept_next(backlog)
       IN  /\ conns' = [conns EXCEPT ![c].status = "handling"]
           /\ backlog' = SelectSeq(backlog, LAMBDA x : x # c)
    /\ dstate' = "Handling"
    /\ dlog' = << >>
    /\ pc' = [pc EXCEPT !["daemon"] = "read"]
    /\ UNCHANGED <<sysfs, diskVars, now, fileVars, lifeVars, call, fx, win, dialog>>

\* Daemon::run, lines 97-99: accept() fails; the pending connections stay queued
Daemon_run_accept_err ==
    /\ InAccept
    /\ dstate' = IF run_propagates("accept") THEN "Exited" ELSE "Idle"
    /\ UNCHANGED <<sysfs, diskVars, now, fileVars, lifeVars, engineVars, win, dialog, backlog,
                   conns, dlog>>

\* handle_client returned and the stream is dropped; run loops or returns.
\* io is how the connection ended: "ok" (the response was written), "eof"
\* (zero bytes were read), "read_err", "write_err".  The phases logged for
\* the connection and the bytes read from it go with it.
Finish(io) ==
    /\ conns' = [conns EXCEPT ![CurConn] =
                    [@ EXCEPT !.status = "done", !.open = FALSE, !.cmd = None, !.io = io]]
    /\ dstate' = IF io \in {"read_err", "write_err"} /\ run_propagates("client")
                 THEN "Exited" ELSE "Idle"
    /\ pc' = [pc EXCEPT !["daemon"] = "idle"]
    /\ call' = [call EXCEPT !["daemon"] = CallNone]
    /\ fx' = [fx EXCEPT !["daemon"] = << >>]
    /\ dlog' = << >>

\* mutant: the record is not consulted
handle_status_none(loadOk) == <<"OK: ", "none", "\n">>

\* handle_status: the active profile of the record as it is now, or the
\* error of Metadata::load
handle_status(loadOk) ==
    LET active == Metadata_load(mdFile).active_profile
    IN  IF loadOk
        THEN <<"OK: ", IF active = None THEN "none" ELSE Unwrap(active), "\n">>
        ELSE <<"ERROR: ", "Failed to read metadata", "\n">>

\* handle_refresh begins with thread::sleep(SETTLE_DELAY_MS)
handle_refresh_entry == "settle"

\* mutant: an unknown command is acknowledged
unknown_command_ok(cmd) == <<"OK\n">>

\* process_command, line 125
unknown_command(cmd) == <<"ERROR: Unknown command: ">> \o cmd \o <<"\n">>

\* mutant: the read gives up on a client that has written nothing
read_returns_always(conn) == TRUE

\* stream.read on a blocking socket with no timeout (line 107; no
\* set_read_timeout anywhere) returns once bytes are there or the peer has
\* closed
read_returns(conn) == conn.sent \/ ~conn.open

\* mutant: a read of zero bytes is taken for a command
zero_bytes_never(cmd) == FALSE

\* handle_client, lines 109-111: `if n == 0 { return Ok(()) }`
zero_bytes(cmd) == cmd = << >>

\* handle_client, lines 106-114, and process_command: read the command and
\* dispatch on it.  A read of zero bytes is the end of a stream whose client
\* has closed; readOk = FALSE is an I/O error of the read.
handle_client ==
    /\ pc["daemon"] = "read"
    /\ read_returns(conns[CurConn])
    /\ \E cmd \in Payloads, readOk \in BOOLEAN, loadOk \in Metadata_load_outcomes(mdFile) :
           /\ cmd = << >> => ~conns[CurConn].open
           /\ ~conns[CurConn].sent => cmd = << >>
           /\ IF ~readOk
              THEN Finish("read_err")
              ELSE IF zero_bytes(cmd)
              THEN Finish("eof")
              ELSE IF Trim(cmd) = REFRESH
              THEN /\ pc' = [pc EXCEPT !["daemon"] = handle_refresh_entry]
                   /\ call' = [call EXCEPT !["daemon"] = [CallNone EXCEPT !.kind = "auto"]]
                   /\ fx' = [fx EXCEPT !["daemon"] = << >>]
                   /\ dlog' = Append(dlog, <<"read", Trim(cmd)>>)
                   /\ conns' = [conns EXCEPT ![CurConn].cmd = Some(cmd)]
                   /\ UNCHANGED dstate
              ELSE /\ pc' = [pc EXCEPT !["daemon"] = "write"]
                   /\ dlog' = dlog \o
                        << <<"read", Trim(cmd)>>,
                           <<"response",
                             IF Trim(cmd) = STATUS THEN handle_status(loadOk)
                             ELSE unknown_command(Trim(cmd))>> >>
                   /\ conns' = [conns EXCEPT ![CurConn].cmd = Some(cmd)]
                   /\ UNCHANGED <<dstate, call, fx>>
    /\ UNCHANGED <<sysfs, diskVars, now, fileVars, lifeVars, win, dialog, backlog>>

\* mutant: the handler polls the stream at every step and gives up on a
\* client that has hung up
touches_stream_always(stage) == TRUE

\* the steps of handle_client that do I/O on the stream, and so see a client
\* that has hung up: the read (line 107) and the write of the response (line
\* 116); handle_refresh never looks at the stream
touches_stream(stage) == stage \in {"read", "write"}

\* handle_refresh, line 134: the settle delay has elapsed
handle_refresh_sleep ==
    /\ pc["daemon"] = "settle"
    /\ IF touches_stream("settle") /\ ~conns[CurConn].open
       THEN /\ Finish("write_err")
            /\ UNCHANGED backlog
       ELSE /\ pc' = [pc EXCEPT !["daemon"] = "auto"]
            /\ dlog' = Append(dlog, <<"settle">>)
            /\ UNCHANGED <<call, fx, dstate, backlog, conns>>
    /\ UNCHANGED <<sysfs, diskVars, now, fileVars, lifeVars, win, dialog>>

\* mutant: the result of apply_auto is not looked at
refresh_response_ok(result, msg) == <<"OK\n">>

\* handle_refresh, lines 136-139: the response for apply_auto's result
refresh_response(result, msg) ==
    IF result = "Ok" THEN <<"OK\n">> ELSE <<"ERROR: ">> \o msg \o <<"\n">>

handle_refresh_result ==
    /\ pc["daemon"] = "ret"
    /\ pc' = [pc EXCEPT !["daemon"] = "write"]
    /\ dlog' = dlog \o
         << <<"apply_auto", call["daemon"].result>>,
            <<"response", refresh_response(call["daemon"].result, call["daemon"].msg)>> >>
    /\ UNCHANGED <<sysfs, diskVars, now, fileVars, lifeVars, call, fx, win, dialog, dstate, backlog, conns>>

\* handle_client, line 116: stream.write_all(response), the response being
\* the last entry of the log; it fails when the client has closed its end
handle_client_write ==
    /\ pc["daemon"] = "write"
    /\ Finish(IF touches_stream("write") /\ ~conns[CurConn].open THEN "write_err" ELSE "ok")
    /\ UNCHANGED <<sysfs, diskVars, now, fileVars, lifeVars, win, dialog, backlog>>

----------------------------------------------------------------------------
(* src/daemon.rs: Daemon::new, Drop, and the processes that run them *)

Instances == {"d1", "d2"}

InstOff == [pc |-> "off", listening |-> FALSE, err |-> "none", binds |-> 0, removed |-> FALSE]

\* mutant: the connect never finds a peer
SocketNeverLive == FALSE

\* UnixStream::connect(path) succeeds when the file at the path is the socket
\* of a listener that is still open
SocketLive == sockFile # None /\ inst[Unwrap(sockFile)].listening

\* a daemon process is started: main.rs line 81
Daemon_start(i) ==
    /\ inst[i].pc \in {"off", "failed"}
    /\ inst' = [inst EXCEPT ![i] = [InstOff EXCEPT !.pc = "connect"]]
    /\ UNCHANGED <<sysfs, diskVars, now, fileVars, engineVars, win, dialog, daemonVars, sockFile, client>>

\* Daemon::new, lines 61-63: the liveness check
Daemon_new_connect(i) ==
    /\ inst[i].pc = "connect"
    /\ inst' = [inst EXCEPT ![i] =
                  IF SocketLive
                  THEN [@ EXCEPT !.pc = "failed", !.err = "already_running"]
                  ELSE [@ EXCEPT !.pc = "bind"]]
    /\ UNCHANGED <<sysfs, diskVars, now, fileVars, engineVars, win, dialog, daemonVars, sockFile, client>>

\* UnixListener::bind(path): AddrInUse when a file is at the path, whoever
\* made it and whether or not it is live; any call can fail for another reason
bind_outcomes(file) == IF file # None THEN {"AddrInUse", "Other"} ELSE {"Ok", "Other"}

\* mutant: AddrInUse is answered with remove-and-retry at every attempt
on_bind_error_retry(kind, attempt) == IF kind = "AddrInUse" THEN "remove" ELSE "failed"

\* Daemon::new, lines 67-78: where a failed bind leads.  Only AddrInUse at
\* the first attempt (line 69) goes on to remove the file and bind again;
\* the second bind (lines 72-73) returns any error with `?`.
on_bind_error(kind, attempt) ==
    IF attempt = 1 /\ kind = "AddrInUse" THEN "remove" ELSE "failed"

\* one call of UnixListener::bind made by instance i
bind(i, attempt, r) ==
    /\ inst' = [inst EXCEPT ![i] =
          IF r = "Ok"
          THEN [@ EXCEPT !.pc = "running", !.listening = TRUE, !.binds = @ + 1]
          ELSE LET to == on_bind_error(r, attempt)
               IN  [@ EXCEPT !.pc = to, !.binds = @ + 1,
                             !.err = IF to # "failed" THEN @
                                     ELSE IF attempt = 1 THEN "bind" ELSE "bind_retry"]]
    /\ sockFile' = IF r = "Ok" THEN Some(i) ELSE sockFile

\* Daemon::new, line 67: the first bind
Daemon_new_bind(i) ==
    /\ inst[i].pc = "bind"
    /\ \E r \in bind_outcomes(sockFile) : bind(i, 1, r)
    /\ UNCHANGED <<sysfs, diskVars, now, fileVars, engineVars, win, dialog, daemonVars, client>>

\* Daemon::new, line 71: let _ = remove_file(path): whatever file is at the
\* path goes; a failure of the removal is ignored
Daemon_new_remove(i) ==
    /\ inst[i].pc = "remove"
    /\ \E rmOk \in BOOLEAN : sockFile' = IF rmOk THEN None ELSE sockFile
    /\ inst' = [inst EXCEPT ![i] = [@ EXCEPT !.pc = "rebind", !.removed = TRUE]]
    /\ UNCHANGED <<sysfs, diskVars, now, fileVars, engineVars, win, dialog, daemonVars, client>>

\* Daemon::new, lines 72-73: the second bind
Daemon_new_rebind(i) ==
    /\ inst[i].pc = "rebind"
    /\ \E r \in bind_outcomes(sockFile) : bind(i, 2, r)
    /\ UNCHANGED <<sysfs, diskVars, now, fileVars, engineVars, win, dialog, daemonVars, client>>

\* Drop for Daemon runs when the Daemon value is dropped.  Daemon::run never
\* returns (lines 90-101: `loop` without break or `?`), so the value is only
\* dropped when a panic unwinds through run; a process ended by a signal runs
\* no destructor.
drop_runs(unwinds) == unwinds

\* the daemon process ends; Drop, line 157: remove_file(socket_path)
Daemon_end(i) ==
    /\ inst[i].pc = "running"
    /\ \E unwinds \in BOOLEAN :
          sockFile' = IF drop_runs(unwinds) THEN None ELSE sockFile
    /\ inst' = [inst EXCEPT ![i] = [@ EXCEPT !.pc = "off", !.listening = FALSE]]
    /\ UNCHANGED <<sysfs, diskVars, now, fileVars, engineVars, win, dialog, daemonVars, client>>

----------------------------------------------------------------------------
(* src/daemon.rs: notify, the client side *)

ClientIdle ==
    [pc |-> "idle", cmd |-> << >>, found |-> FALSE, to |-> None, io |-> TRUE,
     applied |-> "none", response |-> << >>, result |-> "none"]

NotifyCmds == {REFRESH, STATUS, <<"bogus">>}

\* notify is called: main.rs line 85 with "refresh"
notify_start ==
    /\ client.pc \in {"idle", "done"}
    /\ \E cmd \in NotifyCmds : client' = [ClientIdle EXCEPT !.pc = "find", !.cmd = cmd]
    /\ UNCHANGED <<sysfs, diskVars, now, fileVars, engineVars, win, dialog, daemonVars, sockFile, inst>>

\* find_socket_path: the session's path if a file is there; the scan of the
\* other runtime directories finds nothing (one session)
notify_find ==
    /\ client.pc = "find"
    /\ client' = IF sockFile # None
                 THEN [client EXCEPT !.pc = "connect", !.found = TRUE]
                 ELSE [client EXCEPT !.pc = "done", !.result = "Err"]
    /\ UNCHANGED <<sysfs, diskVars, now, fileVars, engineVars, win, dialog, daemonVars, sockFile, inst>>

\* notify, lines 165-166: connect
notify_connect ==
    /\ client.pc = "connect"
    /\ client' = IF SocketLive
                 THEN [client EXCEPT !.pc = "write", !.to = sockFile]
                 ELSE [client EXCEPT !.pc = "done", !.result = "Err"]
    /\ UNCHANGED <<sysfs, diskVars, now, fileVars, engineVars, win, dialog, daemonVars, sockFile, inst>>

\* notify, line 168: write_all(cmd); it fails when the daemon is gone
notify_write ==
    /\ client.pc = "write"
    /\ client' = IF inst[Unwrap(client.to)].listening
                 THEN [client EXCEPT !.pc = "read"]
                 ELSE [client EXCEPT !.pc = "done", !.io = FALSE, !.result = "Err"]
    /\ UNCHANGED <<sysfs, diskVars, now, fileVars, engineVars, win, dialog, daemonVars, sockFile, inst>>

\* the messages of a failed apply_auto
ApplyErrors ==
    {<<"Failed to read metadata">>, <<"Failed to read Thunderbolt sysfs">>,
     <<"Failed to read profile: ", "C">>, <<"write_config failed">>}

\* the daemon the client is connected to handles the request (handle_client,
\* process_command) and drops the stream, or ends before it answered; the
\* client then reads to the end of the stream: the response, or nothing
notify_served ==
    /\ client.pc = "read"
    /\ LET i == Unwrap(client.to)
           t == Trim(client.cmd)
       IN  \/ /\ inst[i].listening
              /\ t = REFRESH
              /\ \E result \in {"Ok", "Err"}, msg \in ApplyErrors :
                    client' = [client EXCEPT !.pc = "check", !.applied = result,
                                             !.response = refresh_response(result, msg)]
           \/ /\ inst[i].listening
              /\ t = STATUS
              /\ \E loadOk \in Metadata_load_outcomes(mdFile) :
                    client' = [client EXCEPT !.pc = "check",
                                             !.response = handle_status(loadOk)]
           \/ /\ inst[i].listening
              /\ t \notin {REFRESH, STATUS}
              /\ client' = [client EXCEPT !.pc = "check", !.response = unknown_command(t)]
           \/ /\ client' = [client EXCEPT !.pc = "check", !.response = << >>]
    /\ UNCHANGED <<sysfs, diskVars, now, fileVars, engineVars, win, dialog, daemonVars, sockFile, inst>>

\* str::starts_with("ERROR") on the response, by its first token
starts_with_ERROR(response) ==
    response # << >> /\ Head(response) \in {"ERROR: ", "ERROR: Unknown command: "}

\* mutant: the response is read and not looked at
notify_check_ok(response) == "Ok"

\* notify, lines 174-178
notify_check(response) == IF starts_with_ERROR(response) THEN "Err" ELSE "Ok"

\* notify, lines 171-178: read_to_string returned; readOk = FALSE: it failed
notify_read ==
    /\ client.pc = "check"
    /\ \E readOk \in BOOLEAN :
          client' = IF readOk
                    THEN [client EXCEPT !.pc = "done", !.result = notify_check(client.response)]
                    ELSE [client EXCEPT !.pc = "done", !.io = FALSE, !.result = "Err"]
    /\ UNCHANGED <<sysfs, diskVars, now, fileVars, engineVars, win, dialog, daemonVars, sockFile, inst>>

----------------------------------------------------------------------------
(* Specifications *)

OptProfiles == {None} \cup {Some(n) : n \in Profiles}

\* the binding records over the bounded names; they were written at time 0
Records ==
    {[active_profile |-> a, last_modified |-> Some(0), dock_profiles |-> f,
      undocked_profile |-> u] :
        a \in OptProfiles, u \in OptProfiles,
        f \in UNION {[D -> Profiles] : D \in SUBSET Uuids}}

\* no dock attached; the host controller and its domain entry are present
NoDocks ==
    [e \in EntryNames |-> IF e \in SlotNames THEN None ELSE Some([unique_id |-> None])]

\* the profile directory is not there yet; nobody is saving or loading at
\* the level of files, no store operation was made
FilesIdle ==
    /\ files = NoFiles
    /\ saver = [w \in Writers |-> SaverIdle]
    /\ reader = None
    /\ op = OpNone

\* no daemon was started in the session and no socket file is left
NoDaemon ==
    /\ sockFile = None
    /\ inst = [i \in Instances |-> InstOff]

InitCommon ==
    /\ sysfs = NoDocks
    /\ now = 0
    /\ pc = [p \in Procs |-> "idle"]
    /\ call = [p \in Procs |-> CallNone]
    /\ fx = [p \in Procs |-> << >>]
    /\ win = WinZero
    /\ dialog = None
    /\ backlog = << >>
    /\ conns = << >>
    /\ dlog = << >>
    /\ client = ClientIdle

\* the decision engine run from the command line, over every binding record
\* and profile store; docks come and go.  No daemon is running.
Init ==
    /\ InitCommon
    /\ FilesIdle
    /\ store = Stored
    /\ mdFile \in {None} \cup {Some(r) : r \in Records}
    /\ dstate = "Off"
    /\ NoDaemon

Next ==
    \/ CliApplyAuto
    \/ CliApplyNamed
    \/ CliExit
    \/ EngineStep("cli")
    \/ Plug
    \/ Unplug

Spec == Init /\ [][Next]_vars

\* the binding record of the daemon's session: each dock linked to a stored
\* profile, and an undocked fallback whose document is missing
SessionRecord ==
    [active_profile |-> None, last_modified |-> Some(0),
     dock_profiles |-> [u \in Uuids |-> IF u = "U1" THEN "A" ELSE "B"],
     undocked_profile |-> Some("C")]

\* the daemon, started and listening, serving its clients; first run, or the
\* session's record
DaemonInit ==
    /\ InitCommon
    /\ FilesIdle
    /\ store = Stored
    /\ mdFile \in {None, Some(SessionRecord)}
    /\ dstate = "Idle"
    /\ sockFile = Some("d1")
    /\ inst = [i \in Instances |-> IF i = "d1"
                                   THEN [InstOff EXCEPT !.pc = "running",
                                                        !.listening = TRUE, !.binds = 1]
                                   ELSE InstOff]

DaemonNext ==
    \/ Connect
    \/ ClientClose
    \/ Daemon_run
    \/ Daemon_run_accept_err
    \/ handle_client
    \/ handle_refresh_sleep
    \/ EngineStep("daemon")
    \/ handle_refresh_result
    \/ handle_client_write
    \/ Plug
    \/ Unplug

DaemonSpec == DaemonInit /\ [][DaemonNext]_vars

\* the interactive editors of the binding record, from an empty record
TuiInit ==
    /\ InitCommon
    /\ FilesIdle
    /\ store = Profiles
    /\ mdFile = None
    /\ dstate = "Off"
    /\ NoDaemon

TuiNext ==
    \/ Plug
    \/ Unplug
    \/ Profile_save
    \/ Profile_delete
    \/ TuiKeyUndocked
    \/ TuiKeyLink
    \/ TuiKeyUnlink
    \/ execute_confirm_action
    \/ cancel_confirm_action

TuiSpec == TuiInit /\ [][TuiNext]_vars

\* the daemon processes of a session, started and ended at any time, and a
\* notify caller; the record has an active profile or does not exist
LifeInit ==
    /\ InitCommon
    /\ FilesIdle
    /\ store = Stored
    /\ mdFile \in {None, Some([SessionRecord EXCEPT !.active_profile = Some("A")])}
    /\ dstate = "Off"
    /\ NoDaemon

LifeNext ==
    \/ \E i \in Instances :
          \/ Daemon_start(i)
          \/ Daemon_new_connect(i)
          \/ Daemon_new_bind(i)
          \/ Daemon_new_remove(i)
          \/ Daemon_new_rebind(i)
          \/ Daemon_end(i)
    \/ notify_start
    \/ notify_find
    \/ notify_connect
    \/ notify_write
    \/ notify_served
    \/ notify_read

LifeSpec == LifeInit /\ [][LifeNext]_vars

\* the clock of SystemTime::now() moves on
Tick ==
    /\ now < MaxTime
    /\ now' = now + 1
    /\ UNCHANGED <<sysfs, diskVars, fileVars, lifeVars, engineVars, win, dialog, daemonVars>>

\* the editors of the binding record, over every set of bindings and every
\* undocked fallback, with time passing
EditInit ==
    /\ InitCommon
    /\ FilesIdle
    /\ store = Profiles
    /\ mdFile \in {None} \cup {Some(r) : r \in {x \in Records : x.active_profile = None}}
    /\ dstate = "Off"
    /\ NoDaemon

EditNext ==
    \/ Tick
    \/ Plug
    \/ Unplug
    \/ TuiKeyUndocked
    \/ TuiKeyLink
    \/ TuiKeyUnlink
    \/ execute_confirm_action
    \/ cancel_confirm_action

EditSpec == EditInit /\ [][EditNext]_vars

\* one dock, U1, on the first port
OneDock == [NoDocks EXCEPT ![DevName(1)] = Some([unique_id |-> Some("U1")])]

\* the records another process (an editor, `hyprpier apply <name>`) leaves
\* behind: the session's record with a binding, the fallback or the active
\* profile changed
OtherRecords ==
    {[SessionRecord EXCEPT !.dock_profiles["U1"] = d, !.undocked_profile = u,
                           !.active_profile = a] :
        d \in {"A", "B"}, u \in {Some("C"), Some("A")}, a \in {None, Some("B")}}

\* Metadata::save in another process: the record file is replaced
Metadata_save_other ==
    /\ \E r \in OtherRecords : r # Metadata_load(mdFile) /\ TuiSave(r)
    /\ UNCHANGED dialog

\* the daemon serving its clients while other processes rewrite the binding
\* record; the dock U1 is there or is not
SharedInit ==
    /\ sysfs \in {NoDocks, OneDock}
    /\ now = 0
    /\ pc = [p \in Procs |-> "idle"]
    /\ call = [p \in Procs |-> CallNone]
    /\ fx = [p \in Procs |-> << >>]
    /\ win = WinZero
    /\ dialog = None
    /\ backlog = << >>
    /\ conns = << >>
    /\ dlog = << >>
    /\ client = ClientIdle
    /\ FilesIdle
    /\ store = Stored
    /\ mdFile \in {None, Some(SessionRecord)}
    /\ dstate = "Idle"
    /\ sockFile = Some("d1")
    /\ inst = [i \in Instances |-> IF i = "d1"
                                   THEN [InstOff EXCEPT !.pc = "running",
                                                        !.listening = TRUE, !.binds = 1]
                                   ELSE InstOff]

SharedNext ==
    \/ Connect
    \/ Daemon_run
    \/ handle_client
    \/ handle_refresh_sleep
    \/ EngineStep("daemon")
    \/ handle_refresh_result
    \/ handle_client_write
    \/ Metadata_save_other

SharedSpec == SharedInit /\ [][SharedNext]_vars

\* the record and the profile "a" as saved before
OldFiles ==
    [exists |-> TRUE,
     dir |-> [n \in {metadata_path, profile_path(PName(97))} |->
                 IF n = metadata_path THEN 1 ELSE 2],
     obj |-> <<Metadata_to_string(OldRecord), Profile_to_string(OldProfile)>>]

SaveInit ==
    /\ InitCommon
    /\ store = Stored
    /\ mdFile = None
    /\ dstate = "Off"
    /\ NoDaemon
    /\ files \in {NoFiles, OldFiles}
    /\ saver = [w \in Writers |-> SaverIdle]
    /\ reader = None
    /\ op \in {[kind |-> "save", path |-> path] :
                  path \in {metadata_path, profile_path(PName(97))}}

SaveSteps(w) ==
    \/ save_begin(w)
    \/ save_create(w)
    \/ save_write(w)
    \/ save_rename(w)
    \/ save_return(w)

\* one process saves, again and again, while another loads
OneWriterNext ==
    \/ SaveSteps("w1")
    \/ load_file

OneWriterSpec == SaveInit /\ [][OneWriterNext]_vars

\* two processes save
TwoWritersNext == \E w \in Writers : SaveSteps(w)

TwoWritersSpec == SaveInit /\ [][TwoWritersNext]_vars

\* the profile store from before its directory exists
StoreInit ==
    /\ InitCommon
    /\ store = {}
    /\ mdFile = None
    /\ dstate = "Off"
    /\ NoDaemon
    /\ FilesIdle

StoreNext ==
    \/ Profile_save_whole
    \/ Metadata_save_whole
    \/ Profile_delete_whole
    \/ Profile_load_whole
    \/ list_profiles_whole

StoreSpec == StoreInit /\ [][StoreNext]_vars

\* names typed in the editor (app.rs line 583 pushes any char): every string
\* of up to MaxNameLen chars out of a, '-', '.', '/', '\', '<', NUL and
\* e-acute, the names of the validator's examples, and names of one char
\* repeated around the length limit
MaxNameLen == 2
Rep(c, n) == [i \in 1..n |-> c]
NameChars == {97, DASH, DOT, SLASH, BACKSLASH, 60, 0, 233}
RECURSIVE Strings(_)
Strings(n) ==
    IF n = 0 THEN {<< >>}
    ELSE Strings(n - 1) \cup {Append(t, c) : t \in Strings(n - 1), c \in NameChars}
NameInputs ==
    Strings(MaxNameLen)
        \cup {<<DOT, 104, 105, 100, 100, 101, 110>>,
              <<97, SLASH, 98>>, <<97, DOT, DOT, 98>>, <<97, 60, 98>>,
              <<119, 111, 114, 107, DASH, 100, 101, 115, 107, 95, 50>>}
        \cup {Rep(c, n) : c \in {97, 233},
                          n \in {50, 51, MAX_PROFILE_NAME_LENGTH, MAX_PROFILE_NAME_LENGTH + 1}}

ValidateInit ==
    /\ InitCommon
    /\ store = {}
    /\ mdFile = None
    /\ dstate = "Off"
    /\ NoDaemon
    /\ files = NoFiles
    /\ saver = [w \in Writers |-> SaverIdle]
    /\ reader = None
    /\ op \in {[kind |-> "input", name |-> name] : name \in NameInputs}

ValidateNext == validate_name

ValidateSpec == ValidateInit /\ [][ValidateNext]_vars

\* the editor is open on a typed name (or on ".metadata"), for a new profile
\* or for one opened as "a"; the directory is not there yet or holds the
\* binding record and the profile "a"
EditorNames == NameInputs \cup {<<DOT, 109, 101, 116, 97, 100, 97, 116, 97>>}

EditorInit ==
    /\ InitCommon
    /\ store = {}
    /\ mdFile = None
    /\ dstate = "Off"
    /\ NoDaemon
    /\ files \in {NoFiles, OldFiles}
    /\ saver = [w \in Writers |-> SaverIdle]
    /\ reader = None
    /\ op \in {[kind |-> "editor", name |-> name, original |-> original, error |-> None,
                deleted |-> None, last |-> "none"] :
                   name \in EditorNames, original \in {None, Some(PName(97))}}

EditorNext ==
    \/ editor_key_s
    \/ confirm_overwrite
    \/ cancel_overwrite
    \/ confirm_delete
    \/ editor_metadata_save

EditorSpec == EditorInit /\ [][EditorNext]_vars

\* the device directory: the domain entry and the host controller there or
\* not, each port empty or with a device whose unique_id reads or does not
Topologies ==
    {fs \in [EntryNames -> {None, Some([unique_id |-> None])}
                              \cup {Some([unique_id |-> Some(u)]) : u \in Uuids}] :
        \A e \in {Domain0, HostName} : fs[e] \in {None, Some([unique_id |-> None])}}

TopologyInit ==
    /\ sysfs \in Topologies
    /\ now = 0
    /\ pc = [p \in Procs |-> "idle"]
    /\ call = [p \in Procs |-> CallNone]
    /\ fx = [p \in Procs |-> << >>]
    /\ win = WinZero
    /\ dialog = None
    /\ backlog = << >>
    /\ conns = << >>
    /\ dlog = << >>
    /\ client = ClientIdle
    /\ store = {}
    /\ mdFile = None
    /\ dstate = "Off"
    /\ NoDaemon
    /\ FilesIdle

TopologyNext == list_devices_call

TopologySpec == TopologyInit /\ [][TopologyNext]_vars

\* the daemon and its clients, some of them silent; the daemon's own steps
\* are taken whenever they can be (the sleep ends, apply_auto and its
\* external commands return), nothing is assumed of the clients or of the
\* docks
DaemonSteps ==
    \/ Daemon_run
    \/ handle_client
    \/ handle_refresh_sleep
    \/ EngineStep("daemon")
    \/ handle_refresh_result
    \/ handle_client_write

ServeNext ==
    \/ Connect
    \/ Connect_silent
    \/ ClientSend
    \/ ClientClose
    \/ Plug
    \/ Unplug
    \/ DaemonSteps

ServeSpec == DaemonInit /\ [][ServeNext]_vars /\ WF_vars(DaemonSteps)

----------------------------------------------------------------------------
(* Properties: vocabulary *)

HasEv(log, kind) == \E i \in 1..Len(log) : log[i][1] = kind

\* the call of process p has written the binding record
Switched(p) == HasEv(fx[p], "save")

Active == Metadata_load(mdFile).active_profile

\* the connected docks, by their topology entries: present, a device entry,
\* not the host controller
DockEntries(fs) ==
    {e \in DOMAIN fs : fs[e] # None /\ DASH \in Range(e) /\ ~EndsWith(e, HostSuffix)}

BoundDocks(md, fs) ==
    {e \in DockEntries(fs) : Device(fs, e).uuid \in DOMAIN md.dock_profiles}

\* the bound dock with the least position_key
FirstBound(md, fs) ==
    CHOOSE e \in BoundDocks(md, fs) : \A o \in BoundDocks(md, fs) \ {e} : StrLess(e, o)

\* the target the decision is specified to resolve
ExpectedTarget(md, fs) ==
    IF BoundDocks(md, fs) # {}
    THEN Some(md.dock_profiles[Device(fs, FirstBound(md, fs)).uuid])
    ELSE md.undocked_profile

\* process p takes the apply_auto step and hardware enumeration succeeds
AutoStep(p) ==
    /\ pc[p] = "auto"
    /\ pc'[p] # "auto"
    /\ call'[p].result # "Err"

\* the step changes nothing outside the call's own locals
NoEffects(p) ==
    /\ fx[p] = << >>
    /\ fx'[p] = << >>
    /\ mdFile' = mdFile
    /\ store' = store
    /\ win' = win

Finished(p) == pc[p] = "ret" /\ call[p].kind = "auto" /\ ~call[p].stale

Dock(u) == Some([unique_id |-> Some(u)])

----------------------------------------------------------------------------
(* C1: apply_auto resolves the binding of the first connected dock, in      *)
(* position_key order, that has a binding; later docks and the undocked     *)
(* profile are ignored; a successful run makes that target the active       *)
(* profile.                                                                 *)

C1_Decision ==
    \A p \in Procs :
        LET md == Metadata_load(mdFile)
            t == Some(md.dock_profiles[Device(sysfs, FirstBound(md, sysfs)).uuid])
        IN  (AutoStep(p) /\ BoundDocks(md, sysfs) # {}) =>
                /\ call'[p].target = t
                /\ IF t = md.active_profile
                   THEN pc'[p] = "ret"
                   ELSE pc'[p] = "apply" /\ call'[p].name = t

C1_Applied ==
    \A p \in Procs : (Finished(p) /\ Switched(p)) => Active = call[p].target

\* C1: the first connected dock in position_key order that has a binding
\* decides the target, and a successful run leaves that target active
C1_FirstBoundDockWins == [][C1_Decision]_vars /\ []C1_Applied

\* the example of the specification: {U1 -> A, U2 -> B}, undocked C, docks
\* ordered [U2, U1], active not B: the run ends with B active
C1_Witness ==
    /\ Finished("cli") /\ Switched("cli")
    /\ Metadata_load(mdFile).dock_profiles = [u \in {"U1", "U2"} |-> IF u = "U1" THEN "A" ELSE "B"]
    /\ Metadata_load(mdFile).undocked_profile = Some("C")
    /\ sysfs[DevName(1)] = Dock("U2")
    /\ sysfs[DevName(2)] = Dock("U1")
    /\ call["cli"].current = Some("A")
    /\ Active = Some("B")

----------------------------------------------------------------------------
(* C2: when the resolved target (from a bound dock or the undocked          *)
(* fallback) equals the recorded active profile, apply_auto returns success *)
(* and does nothing: no notification, no profile load, no config write or   *)
(* push, no write of the binding record.                                    *)

C2_Step ==
    \A p \in Procs :
        LET md == Metadata_load(mdFile)
        IN  (/\ AutoStep(p)
             /\ ExpectedTarget(md, sysfs) # None
             /\ ExpectedTarget(md, sysfs) = md.active_profile) =>
                /\ pc'[p] = "ret"
                /\ call'[p].result = "Ok"
                /\ NoEffects(p)

\* C2: target = active profile: apply_auto returns Ok and has no effect at
\* all
C2_ShortCircuit == [][C2_Step]_vars

\* no dock, undocked profile C, C already active
C2_Witness ==
    /\ Finished("cli")
    /\ sysfs = NoDocks
    /\ Metadata_load(mdFile).undocked_profile = Some("C")
    /\ call["cli"].current = Some("C")
    /\ call["cli"].target = Some("C")
    /\ call["cli"].result = "Ok"
    /\ fx["cli"] = << >>

----------------------------------------------------------------------------
(* C3: of the refresh calls served one after another while hardware and     *)
(* bindings are unchanged, exactly the first that finds target # active     *)
(* switches the profile and every later one is a no-op; at most one         *)
(* transition of active_profile in total.                                   *)

C3_FirstCallSwitches ==
    /\ win.switches <= 1
    /\ \A p \in Procs :
        (Finished(p) /\ HasEv(fx[p], "notify")) => (win.notes = 1 /\ Switched(p))

----------------------------------------------------------------------------
(* C4: while the connected docks and the bindings do not change, the        *)
(* notification and the apply of the target are triggered at most once,     *)
(* whatever the outcome of each call.                                       *)

C4_NotifiedOnce == win.notes <= 1

----------------------------------------------------------------------------
(* C5: when no connected dock has a binding and undocked_profile is set,    *)
(* it is the target: a no-op if it is the active profile, otherwise it is   *)
(* applied and becomes the active profile.                                  *)

C5_Step ==
    \A p \in Procs :
        LET md == Metadata_load(mdFile)
        IN  (AutoStep(p) /\ BoundDocks(md, sysfs) = {} /\ md.undocked_profile # None) =>
                /\ call'[p].target = md.undocked_profile
                /\ IF md.undocked_profile = md.active_profile
                   THEN pc'[p] = "ret" /\ call'[p].result = "Ok" /\ NoEffects(p)
                   ELSE /\ pc'[p] = "apply"
                        /\ call'[p].name = md.undocked_profile
                        /\ fx'[p] = << <<"notify", "Undocked", Unwrap(md.undocked_profile)>> >>

C5_Applied ==
    \A p \in Procs :
        (/\ Finished(p)
         /\ HasEv(fx[p], "notify") /\ fx[p][1][2] = "Undocked"
         /\ call[p].result = "Ok") =>
            /\ Switched(p)
            /\ Active = call[p].target

\* C5: no bound dock is connected and undocked_profile is set: it is the
\* target, a no-op when active, applied and made active otherwise
C5_UndockedFallback == [][C5_Step]_vars /\ []C5_Applied

\* an unlinked dock is attached; the undocked profile was applied
C5_Witness ==
    /\ Finished("cli") /\ Switched("cli")
    /\ DockEntries(sysfs) # {}
    /\ BoundDocks(Metadata_load(mdFile), sysfs) = {}
    /\ call["cli"].current # call["cli"].target
    /\ Metadata_load(mdFile).undocked_profile = call["cli"].target
    /\ Active = call["cli"].target

----------------------------------------------------------------------------
(* C6: when no connected dock has a binding and undocked_profile is unset,  *)
(* apply_auto returns success and changes nothing.                          *)

C6_Step ==
    \A p \in Procs :
        LET md == Metadata_load(mdFile)
        IN  (AutoStep(p) /\ BoundDocks(md, sysfs) = {} /\ md.undocked_profile = None) =>
                /\ pc'[p] = "ret"
                /\ call'[p].result = "Ok"
                /\ call'[p].target = None
                /\ NoEffects(p)

\* C6: no bound dock is connected and undocked_profile is unset: apply_auto
\* returns Ok and changes nothing
C6_NothingConfigured == [][C6_Step]_vars

\* docks attached, none linked, no fallback: success without a target
C6_Witness ==
    /\ Finished("cli")
    /\ DockEntries(sysfs) # {}
    /\ BoundDocks(Metadata_load(mdFile), sysfs) = {}
    /\ Metadata_load(mdFile).undocked_profile = None
    /\ Active = Some("A")
    /\ call["cli"].target = None
    /\ call["cli"].result = "Ok"
    /\ fx["cli"] = << >>

----------------------------------------------------------------------------
(* C7: apply_profile_inner writes active_profile = name as its last step,   *)
(* after the profile was loaded, the config written and the runtime push    *)
(* (when made) succeeded; when the load, the write or the push fails it     *)
(* returns an error and the persisted record is unchanged.                  *)

C7_State ==
    \A p \in Procs :
        /\ (\/ HasEv(fx[p], "load_err")
            \/ HasEv(fx[p], "write_err")
            \/ HasEv(fx[p], "push_err")) =>
                (pc[p] = "ret" /\ call[p].result = "Err" /\ ~Switched(p))
        /\ (pc[p] = "ret" /\ call[p].result = "Err") => ~Switched(p)
        /\ Switched(p) =>
                /\ pc[p] = "ret" /\ call[p].result = "Ok"
                /\ Last(fx[p]) = <<"save", Unwrap(call[p].name)>>
                /\ HasEv(fx[p], "load") /\ HasEv(fx[p], "write")
                /\ HasEv(fx[p], "push") \/ HasEv(fx[p], "nopush")

C7_Step ==
    mdFile' # mdFile =>
        \E p \in Procs :
            /\ pc[p] = "commit_save" /\ pc'[p] = "ret"
            /\ HasEv(fx[p], "load") /\ HasEv(fx[p], "write")
            /\ HasEv(fx[p], "push") \/ HasEv(fx[p], "nopush")
            /\ Unwrap(mdFile').active_profile = call[p].name
            /\ Unwrap(mdFile') =
                  [Unwrap(call[p].md) EXCEPT !.active_profile = call[p].name,
                                             !.last_modified = Some(now)]

\* C7: the record is written last, with active_profile = name, only after
\* load, write and push succeeded; a failed call leaves it unchanged
C7_CommitLast == []C7_State /\ [][C7_Step]_vars

\* `apply B`: the config was written, the push failed, B is not active
C7_Witness ==
    /\ pc["cli"] = "ret" /\ call["cli"].kind = "named"
    /\ call["cli"].name = Some("B")
    /\ HasEv(fx["cli"], "write") /\ HasEv(fx["cli"], "push_err")
    /\ call["cli"].result = "Err"
    /\ Active = Some("A")

----------------------------------------------------------------------------
(* C8: a failure of the monitor-name resolver does not abort the apply: the *)
(* config is written with the stored names, and when the write and the push *)
(* succeed the call succeeds and the applied name is active.                *)

----------------------------------------------------------------------------
(* C9: the daemon is Idle or Handling; at most one connection is being      *)
(* handled at any instant, an accepted connection is processed to           *)
(* completion before the next accept, and no two apply_auto executions of   *)
(* the daemon overlap.                                                      *)

C9_OneAtATime ==
    /\ dstate \in {"Idle", "Handling"}
    /\ Cardinality(Handling) <= 1
    /\ dstate = "Handling" <=> Handling # {}
    /\ dstate = "Idle" <=> pc["daemon"] = "idle"
    /\ \A c \in 1..Len(conns) :
          conns[c].status # "queued" =>
              \A b \in 1..(c - 1) : conns[b].status = "done"

\* a refresh is being applied while the next connection waits in the backlog
C9_Witness ==
    /\ dstate = "Handling"
    /\ pc["daemon"] = "commit_save"
    /\ Len(conns) = 2
    /\ conns[1].status = "handling"
    /\ conns[2].status = "queued"
    /\ backlog = <<2>>

----------------------------------------------------------------------------
(* C10: a "refresh" is handled as settle delay, then one apply_auto, which  *)
(* enumerates the hardware and loads the record only after the delay, then  *)
(* the response: "OK\n" iff apply_auto succeeded, "ERROR: <message>\n" iff  *)
(* it failed.                                                               *)

C10_State ==
    LET d == "daemon"
    IN  /\ pc[d] = "settle" =>
              /\ dlog = << <<"read", REFRESH>> >>
              /\ call[d] = [CallNone EXCEPT !.kind = "auto"]
              /\ fx[d] = << >>
        /\ pc[d] \in {"auto", "apply", "commit_load", "commit_save", "ret"} =>
              dlog = << <<"read", REFRESH>>, <<"settle">> >>
        /\ (pc[d] = "write" /\ dlog[1] = <<"read", REFRESH>>) =>
              /\ Len(dlog) = 4
              /\ dlog[2] = <<"settle">>
              /\ dlog[3] = <<"apply_auto", call[d].result>>
              /\ dlog[4][1] = "response"
              /\ call[d].result \in {"Ok", "Err"}
              /\ call[d].result = "Ok" <=> dlog[4][2] = <<"OK\n">>
              /\ call[d].result = "Err" <=>
                    dlog[4][2] = <<"ERROR: ">> \o call[d].msg \o <<"\n">>
              /\ call[d].result = "Err" => call[d].msg # << >>

C10_Step ==
    LET d == "daemon"
    IN  /\ AutoStep(d) =>
              /\ call'[d].current = Metadata_load(mdFile).active_profile
              /\ call'[d].target = ExpectedTarget(Metadata_load(mdFile), sysfs)
        /\ (pc[d] = "write" /\ pc'[d] = "idle") =>
              /\ Last(dlog)[1] = "response"
              /\ conns'[CurConn].io = IF conns[CurConn].open THEN "ok" ELSE "write_err"

\* C10: a refresh is the settle delay, then one apply_auto reading hardware
\* and record after the delay, then OK or ERROR: <message> by its result
C10_RefreshOrder == []C10_State /\ [][C10_Step]_vars

\* a refresh whose apply failed is about to be answered with the error
C10_Witness ==
    /\ pc["daemon"] = "write"
    /\ dlog[1] = <<"read", REFRESH>>
    /\ call["daemon"].result = "Err"
    /\ HasEv(fx["daemon"], "write_err")
    /\ Last(dlog) = <<"response", <<"ERROR: ", "write_config failed", "\n">> >>

----------------------------------------------------------------------------
(* Properties of the daemon's request handling: vocabulary *)

\* the daemon takes the step that reads the command of the accepted connection
ReadStep == pc["daemon"] = "read" /\ pc'["daemon"] # "read"

\* the bytes that step read, when it read any and the read did not fail
ReadSome == ReadStep /\ conns'[CurConn].cmd # None
RawRead == Unwrap(conns'[CurConn].cmd)

\* what the daemon is about to write, after the step
Response == Last(dlog')[2]

\* the step touches neither the stores nor the hardware state, starts no
\* decision-engine call and sends no notification
Quiet ==
    /\ mdFile' = mdFile
    /\ store' = store
    /\ sysfs' = sysfs
    /\ win' = win
    /\ call' = call /\ call["daemon"] = CallNone
    /\ fx' = fx /\ fx["daemon"] = << >>

\* a connection whose command was `c` is at, or past, the write of its response
Answering(c) == pc["daemon"] = "write" /\ dlog[1] = <<"read", c>>

ActiveName == IF Active = None THEN "none" ELSE Unwrap(Active)

----------------------------------------------------------------------------
(* C11: a "status" request is answered "OK: <p>\n", <p> the active_profile  *)
(* of the record as persisted at that moment, "none" when unset or when no  *)
(* record file exists; no hardware enumeration, and neither the record nor  *)
(* any configuration is modified.                                           *)

\* C11 as stated: every status request is answered "OK: <p>\n"
C11_StatusAlwaysOk ==
    [][(ReadSome /\ Trim(RawRead) = STATUS) =>
          Response = <<"OK: ", ActiveName, "\n">>]_vars

C11_Step ==
    /\ (ReadSome /\ Trim(RawRead) = STATUS) =>
          /\ pc'["daemon"] = "write"
          /\ \/ dlog' = << <<"read", STATUS>>, <<"response", <<"OK: ", ActiveName, "\n">> >> >>
             \/ /\ mdFile # None
                /\ dlog' = << <<"read", STATUS>>,
                              <<"response", <<"ERROR: ", "Failed to read metadata", "\n">> >> >>
          /\ Quiet
    /\ (Answering(STATUS) /\ pc'["daemon"] # "write") =>
          /\ Quiet
          /\ dstate' = "Idle"

C11_State ==
    Answering(STATUS) =>
        /\ Len(dlog) = 2
        /\ call["daemon"] = CallNone
        /\ fx["daemon"] = << >>

\* C11, amended: a status request is answered "OK: <p>\n" with the active
\* profile persisted at that moment ("none" when unset or when there is no
\* record file), or "ERROR: <message>\n" when the record file is there and
\* cannot be loaded; either way nothing is enumerated, applied or written
C11_Status == [][C11_Step]_vars /\ []C11_State

\* a refresh has made A active; the status request after it is answered OK: A
C11_Witness ==
    /\ Len(conns) = 2
    /\ conns[1].status = "done" /\ conns[1].io = "ok"
    /\ win.switches = 1
    /\ pc["daemon"] = "write"
    /\ dlog = << <<"read", STATUS>>, <<"response", <<"OK: ", "A", "\n">> >> >>

----------------------------------------------------------------------------
(* C12: any request payload other than "refresh" or "status" is answered    *)
(* with "ERROR: Unknown command: <payload>\n" and has no side effects: no   *)
(* settle delay, no hardware enumeration, no apply, the binding record is   *)
(* unchanged.                                                               *)

\* C12 as stated: the payload as the client wrote it decides, and comes back
\* in the response
C12_AnyOtherPayload ==
    [][(ReadSome /\ RawRead \notin {REFRESH, STATUS}) =>
          /\ pc'["daemon"] = "write"
          /\ Response = <<"ERROR: Unknown command: ">> \o RawRead \o <<"\n">>]_vars

C12_Step ==
    /\ (ReadSome /\ Trim(RawRead) \notin {REFRESH, STATUS}) =>
          /\ pc'["daemon"] = "write"
          /\ dlog' = << <<"read", Trim(RawRead)>>,
                        <<"response",
                          <<"ERROR: Unknown command: ">> \o Trim(RawRead) \o <<"\n">> >> >>
          /\ Quiet
    /\ (/\ pc["daemon"] = "write"
        /\ dlog[1][2] \notin {REFRESH, STATUS}
        /\ pc'["daemon"] # "write") =>
          /\ Quiet
          /\ dstate' = "Idle"

C12_State ==
    (pc["daemon"] = "write" /\ dlog[1][2] \notin {REFRESH, STATUS}) =>
        /\ Len(dlog) = 2
        /\ call["daemon"] = CallNone
        /\ fx["daemon"] = << >>

\* C12, amended: a non-empty payload whose text with the surrounding
\* whitespace trimmed is neither "refresh" nor "status" is answered "ERROR:
\* Unknown command: <trimmed payload>\n", with no settle delay, no
\* enumeration, no apply and no change of the binding record
C12_UnknownCommand == [][C12_Step]_vars /\ []C12_State

\* "bogus\n" was read: the answer names "bogus"
C12_Witness ==
    /\ pc["daemon"] = "write"
    /\ conns[CurConn].cmd = Some(<<"bogus", "\n">>)
    /\ dlog = << <<"read", <<"bogus">> >>,
                 <<"response", <<"ERROR: Unknown command: ", "bogus", "\n">> >> >>

----------------------------------------------------------------------------
(* C13: no per-connection failure terminates the daemon: after an accept    *)
(* error, a read or write error on a client stream, an unknown command or a *)
(* failing apply, the daemon is back in Idle and goes on accepting and      *)
(* serving the later connections.                                           *)

\* the step ends the handling of a connection, however it ended
ConnEnds == Handling # {} /\ conns'[CurConn].status = "done"

C13_Step ==
    /\ dstate' \in {"Idle", "Handling"}
    /\ ConnEnds =>
          /\ conns'[CurConn].io \in {"ok", "eof", "read_err", "write_err"}
          /\ dstate' = "Idle"
          /\ pc'["daemon"] = "idle"
          /\ backlog' = backlog
    /\ (/\ pc["daemon"] = "ret" /\ call["daemon"].result = "Err"
        /\ pc'["daemon"] # "ret") =>
          /\ pc'["daemon"] = "write"
          /\ Last(dlog')[2] = <<"ERROR: ">> \o call["daemon"].msg \o <<"\n">>
          /\ dstate' = "Handling"

\* blocked in accept with a connection pending, the daemon can take it
C13_State ==
    /\ dstate \in {"Idle", "Handling"}
    /\ (dstate = "Idle" /\ backlog # << >>) => ENABLED Daemon_run

C13_DaemonSurvives == [][C13_Step]_vars /\ []C13_State

\* the first connection ended in a read error, the second was served
C13_Witness ==
    /\ Len(conns) = 2
    /\ conns[1].status = "done" /\ conns[1].io = "read_err"
    /\ conns[2].status = "done" /\ conns[2].io = "ok"
    /\ dstate = "Idle"

----------------------------------------------------------------------------
(* C18: a client that connects while the daemon is handling a "refresh",    *)
(* its settle delay included, is not served until that refresh has          *)
(* completed and its response has been written; requests are served one     *)
(* after another in arrival order.                                          *)

\* the step takes connection c from the backlog
Accepts(c) == conns[c].status = "queued" /\ conns'[c].status = "handling"

\* connections are numbered in arrival order
C18_Step ==
    \A c \in 1..Len(conns) :
        Accepts(c) =>
            /\ dstate = "Idle" /\ pc["daemon"] = "idle"
            /\ dlog = << >> /\ call["daemon"] = CallNone
            /\ \A b \in 1..(c - 1) : conns[b].status = "done"
            /\ \A b \in 1..(c - 1) : conns[b].io \in {"ok", "eof", "read_err", "write_err"}

C18_State ==
    \A c \in Handling :
        /\ \A b \in 1..(c - 1) : conns[b].status = "done"
        /\ \A a \in (c + 1)..Len(conns) : conns[a].status = "queued" /\ conns[a].cmd = None

C18_ArrivalOrder == [][C18_Step]_vars /\ []C18_State

\* the second client connected and then closed while the first one's refresh
\* is in its settle delay
C18_Witness ==
    /\ Len(conns) = 2
    /\ conns[1].status = "handling" /\ conns[1].cmd = Some(REFRESH)
    /\ pc["daemon"] = "settle"
    /\ conns[2].status = "queued" /\ ~conns[2].open

----------------------------------------------------------------------------
(* C19: once the daemon has read a "refresh", the settle delay and the      *)
(* apply run to completion: a client that disconnects after sending the     *)
(* command cannot prevent or abort the apply; the only effect is a write    *)
(* error on the response, after which the daemon is back in Idle.           *)

\* a refresh has been read from the connection being handled
RefreshInFlight ==
    /\ Handling # {}
    /\ conns[CurConn].cmd # None
    /\ Trim(Unwrap(conns[CurConn].cmd)) = REFRESH

HasEntry(log, tag) == \E k \in 1..Len(log) : log[k][1] = tag

C19_Step ==
    RefreshInFlight =>
        \* the client going away changes nothing on the daemon's side
        /\ (conns[CurConn].open /\ ~conns'[CurConn].open /\ ~ConnEnds) =>
              /\ pc' = pc /\ call' = call /\ fx' = fx
              /\ dlog' = dlog /\ dstate' = dstate
        \* the settle delay is followed by the apply, client or no client
        /\ (pc["daemon"] = "settle" /\ pc'["daemon"] # "settle") =>
              /\ pc'["daemon"] = "auto"
              /\ call'["daemon"].kind = "auto"
        \* the connection ends only with the write of the response
        /\ ConnEnds =>
              /\ pc["daemon"] = "write"
              /\ HasEntry(dlog, "settle")
              /\ HasEntry(dlog, "apply_auto")
              /\ Last(dlog)[1] = "response"
              /\ conns'[CurConn].io = IF conns[CurConn].open THEN "ok" ELSE "write_err"
              /\ dstate' = "Idle"

C19_State ==
    (RefreshInFlight /\ pc["daemon"] = "write") =>
        /\ dlog[2] = <<"settle">>
        /\ dlog[Len(dlog) - 1] = <<"apply_auto", call["daemon"].result>>
        /\ call["daemon"].result \in {"Ok", "Err"}

C19_NoCancellation == [][C19_Step]_vars /\ []C19_State

\* the client of the only connection went away; its refresh switched the
\* profile all the same and ended in a write error
C19_Witness ==
    /\ Len(conns) = 1
    /\ conns[1].status = "done" /\ conns[1].io = "write_err"
    /\ win.switches = 1
    /\ dstate = "Idle"

----------------------------------------------------------------------------
(* C14: starting a daemon while another instance is alive and listening on  *)
(* the socket path fails with an already-running error and leaves the       *)
(* running instance undisturbed (its socket file is not removed, it keeps   *)
(* serving); once the first instance's socket file has been removed, a new  *)
(* start binds successfully.                                                *)

\* a listener that is still open owns the file at the socket path
LivePeer == sockFile # None /\ inst[Unwrap(sockFile)].listening

\* instance i makes its liveness check in this step
Checks(i) == inst[i].pc = "connect" /\ inst'[i].pc # "connect"

C14_Step ==
    \A i \in Instances :
        /\ (Checks(i) /\ LivePeer) =>
              /\ inst'[i].pc = "failed"
              /\ inst'[i].err = "already_running"
              /\ sockFile' = sockFile
              /\ \A j \in Instances \ {i} : inst'[j] = inst[j]
        /\ (Checks(i) /\ ~LivePeer) => inst'[i].pc = "bind"
        \* with no file at the path the bind is not refused as in use
        /\ (inst[i].pc = "bind" /\ inst'[i].pc # "bind" /\ sockFile = None) =>
              \/ inst'[i].pc = "running" /\ inst'[i].listening /\ sockFile' = Some(i)
              \/ inst'[i].pc = "failed" /\ inst'[i].err = "bind" /\ sockFile' = None

C14_State ==
    \A i \in Instances :
        /\ inst[i].err = "already_running" =>
              /\ inst[i].pc = "failed"
              /\ inst[i].binds = 0
              /\ ~inst[i].removed
              /\ ~inst[i].listening
        /\ (inst[i].pc = "bind" /\ sockFile = None) =>
              ENABLED (Daemon_new_bind(i) /\ inst'[i].pc = "running")

C14_AlreadyRunning == [][C14_Step]_vars /\ []C14_State

\* d1 is serving, the start of d2 was refused
C14_Witness ==
    /\ inst["d1"].pc = "running" /\ inst["d1"].listening
    /\ sockFile = Some("d1")
    /\ inst["d2"].pc = "failed" /\ inst["d2"].err = "already_running"

----------------------------------------------------------------------------
(* C15: during startup, a bind that fails with address-in-use is followed   *)
(* by the removal of the socket file and exactly one retry (a second        *)
(* failure is fatal, there is no further retry); any other bind failure is  *)
(* fatal at once, without removing the file.                                *)

C15_Step ==
    \A i \in Instances :
        \* the first bind
        /\ (inst[i].pc = "bind" /\ inst'[i].pc # "bind") =>
              /\ inst'[i].binds = 1
              /\ inst'[i].pc \in {"running", "remove", "failed"}
              /\ inst'[i].pc = "remove" => sockFile # None /\ sockFile' = sockFile
              /\ inst'[i].pc = "failed" =>
                    /\ inst'[i].err = "bind"
                    /\ ~inst'[i].removed
                    /\ sockFile' = sockFile
        \* the removal is followed by the second bind and nothing else
        /\ (inst[i].pc = "remove" /\ inst'[i].pc # "remove") =>
              /\ inst'[i].pc = "rebind"
              /\ inst'[i].removed
              /\ sockFile' \in {None, sockFile}
        \* the second bind is the last
        /\ (inst[i].pc = "rebind" /\ inst'[i].pc # "rebind") =>
              /\ inst'[i].binds = 2
              /\ inst'[i].pc \in {"running", "failed"}
              /\ inst'[i].pc = "failed" =>
                    /\ inst'[i].err = "bind_retry"
                    /\ sockFile' = sockFile

C15_State ==
    \A i \in Instances :
        /\ inst[i].binds \in 0..2
        /\ inst[i].binds = 2 <=> (inst[i].removed /\ inst[i].pc \notin {"rebind"})
        /\ inst[i].pc = "remove" => inst[i].binds = 1 /\ ~inst[i].removed
        /\ inst[i].pc = "rebind" => inst[i].binds = 1 /\ inst[i].removed
        /\ inst[i].err = "bind" => inst[i].binds = 1 /\ ~inst[i].removed
        /\ inst[i].err = "bind_retry" => inst[i].binds = 2 /\ inst[i].removed

C15_RetryOnce == [][C15_Step]_vars /\ []C15_State

\* the retry of d2 failed as well, with the file still at the path
C15_Witness ==
    /\ inst["d2"].pc = "failed" /\ inst["d2"].err = "bind_retry"
    /\ inst["d2"].binds = 2 /\ inst["d2"].removed
    /\ sockFile # None

----------------------------------------------------------------------------
(* C16: the bind step handles the startup race: when two instances start    *)
(* concurrently, both passing the liveness check before either has bound,   *)
(* the one whose bind fails with address-in-use has lost to the other, at   *)
(* most one instance ends up with a listener reachable at the socket path,  *)
(* and the winner's socket file is never unlinked by the loser.             *)

\* instance i runs remove_file in this step
Removes(i) == inst[i].pc = "remove" /\ inst'[i].pc = "rebind"

C16_StartupRace ==
    [][\A i \in Instances :
          /\ (Removes(i) /\ LivePeer) => sockFile' = sockFile
          /\ \A j \in Instances : inst'[j].listening => sockFile' = Some(j)]_vars

----------------------------------------------------------------------------
(* C17: when the daemon process ends, its socket file has been removed, so  *)
(* that a later instance's liveness check finds no live peer and its        *)
(* startup succeeds.                                                        *)

\* the process of instance i ends in this step
Ends(i) == inst[i].pc = "running" /\ inst'[i].pc = "off"

C17_SocketRemovedAtEnd ==
    [][\A i \in Instances : (Ends(i) /\ sockFile = Some(i)) => sockFile' = None]_vars

----------------------------------------------------------------------------
(* C20: notify(command) returns failure iff no daemon socket is found, the  *)
(* connection or the I/O fails, or the daemon's full response begins with   *)
(* "ERROR"; so a refresh whose apply failed in the daemon is reported as a  *)
(* failure to the caller, and a refresh answered "OK\n" as success.         *)

NotifyDone == client.pc = "done"

NoSocketFound == ~client.found
ConnectFailed == client.found /\ client.to = None
IoFailed == ~client.io

\* the response as the client read it, begun with the text ERROR
BeginsWithERROR ==
    /\ client.io
    /\ client.response # << >>
    /\ Head(client.response) \in {"ERROR: ", "ERROR: Unknown command: "}

C20_NotifyResult ==
    NotifyDone =>
        /\ client.result \in {"Ok", "Err"}
        /\ client.result = "Err" <=>
              (NoSocketFound \/ ConnectFailed \/ IoFailed \/ BeginsWithERROR)
        /\ (client.applied = "Err" /\ client.io) =>
              /\ client.cmd = REFRESH
              /\ client.result = "Err"
        /\ (client.response = <<"OK\n">> /\ client.io) =>
              /\ client.cmd = REFRESH
              /\ client.result = "Ok"

\* the apply of a refresh failed in the daemon and notify returned the failure
C20_Witness ==
    /\ NotifyDone
    /\ client.cmd = REFRESH
    /\ client.applied = "Err" /\ client.io
    /\ client.response = <<"ERROR: ", "Failed to read Thunderbolt sysfs", "\n">>
    /\ client.result = "Err"

----------------------------------------------------------------------------
(* C22: every mutation of the binding record that gets persisted updates    *)
(* last_modified to the current time: after any operation that changes      *)
(* active_profile, the dock bindings or undocked_profile and saves the      *)
(* record, last_modified is the time of that operation.                     *)

\* the record as a loader finds it
OnDisk(file) == IF file = None THEN MetadataDefault ELSE Unwrap(file)

\* the step saves a record whose bindings, fallback or active profile differ
\* from the ones persisted before
SavesMutation ==
    /\ mdFile' # mdFile
    /\ \/ OnDisk(mdFile').active_profile # OnDisk(mdFile).active_profile
       \/ OnDisk(mdFile').dock_profiles # OnDisk(mdFile).dock_profiles
       \/ OnDisk(mdFile').undocked_profile # OnDisk(mdFile).undocked_profile

C22_LastModified ==
    [][SavesMutation => OnDisk(mdFile').last_modified = Some(now)]_vars

----------------------------------------------------------------------------
(* C23: link(identity, name) is an upsert, after which the binding of the   *)
(* identity is name, the identity has exactly one binding and every other   *)
(* identity's binding is unchanged; unlink(identity) removes that           *)
(* identity's binding, changes no other binding, and leaves the bindings    *)
(* unchanged when the identity was not bound.                               *)

\* the bindings as pairs
Bindings(md) == {<<u, md.dock_profiles[u]>> : u \in DOMAIN md.dock_profiles}

SameElsewhere(a, b, uuid) ==
    \A o \in (DOMAIN a.dock_profiles \cup DOMAIN b.dock_profiles) \ {uuid} :
        get_dock_profile(a, o) = get_dock_profile(b, o)

\* the mutators applied to the record persisted now, for every identity and name
C23_State ==
    LET md == OnDisk(mdFile)
    IN  \A uuid \in Uuids :
          /\ \A name \in Profiles :
                LET after == link_dock(md, uuid, name, now)
                IN  /\ get_dock_profile(after, uuid) = Some(name)
                    /\ {b \in Bindings(after) : b[1] = uuid} = {<<uuid, name>>}
                    /\ SameElsewhere(after, md, uuid)
          /\ LET after == unlink_dock(md, uuid, now)
             IN  /\ get_dock_profile(after, uuid) = None
                 /\ SameElsewhere(after, md, uuid)
                 /\ get_dock_profile(md, uuid) = None =>
                        after.dock_profiles = md.dock_profiles

\* the mutators as the confirm actions call them
C23_Step ==
    \A a \in dialog :
        (dialog' = None /\ mdFile' # mdFile) =>
            /\ a.action \in {"LinkSteal", "LinkRemoveUndocked"} =>
                  /\ get_dock_profile(OnDisk(mdFile'), a.dock_uuid) = Some(a.profile_name)
                  /\ SameElsewhere(OnDisk(mdFile'), OnDisk(mdFile), a.dock_uuid)
            /\ a.action \in {"UnlinkDock", "SetUndocked"} =>
                  /\ get_dock_profile(OnDisk(mdFile'), a.dock_uuid) = None
                  /\ SameElsewhere(OnDisk(mdFile'), OnDisk(mdFile), a.dock_uuid)

C23_LinkUnlink == [][C23_Step]_vars /\ []C23_State

\* a link made at time 1 next to the binding of another identity
C23_Witness ==
    /\ now = 1
    /\ OnDisk(mdFile).last_modified = Some(1)
    /\ Bindings(OnDisk(mdFile)) = {<<"U1", "C">>, <<"U2", "B">>}
    /\ dialog = None

----------------------------------------------------------------------------
(* C24: identity_for_profile(name) returns some identity bound to name      *)
(* whenever at least one exists, and none iff no identity is bound to name; *)
(* when several identities are bound to the same profile the one returned   *)
(* is one of them.                                                          *)

BoundTo(md, name) == {b[1] : b \in {x \in Bindings(md) : x[2] = name}}

\* what get_profile_dock can return on the record persisted now
C24_State ==
    LET md == OnDisk(mdFile)
    IN  \A name \in Profiles :
          /\ get_profile_dock_candidates(md, name) \subseteq BoundTo(md, name)
          /\ get_profile_dock_candidates(md, name) = {} <=> BoundTo(md, name) = {}

\* key 'u' on a listed profile: the dialog names the identity returned; the
\* fallback is set without a dialog when none was returned
C24_Step ==
    LET md == OnDisk(mdFile)
    IN  /\ (dialog = None /\ dialog' # None /\ Unwrap(dialog').action = "SetUndocked") =>
              /\ Unwrap(dialog').dock_uuid \in BoundTo(md, Unwrap(dialog').profile_name)
              /\ md.undocked_profile # Some(Unwrap(dialog').profile_name)
        /\ (/\ dialog = None /\ dialog' = None /\ mdFile' # mdFile
            /\ OnDisk(mdFile').undocked_profile \notin {None, md.undocked_profile}) =>
              BoundTo(md, Unwrap(OnDisk(mdFile').undocked_profile)) = {}

C24_ReverseLookup == [][C24_Step]_vars /\ []C24_State

\* two identities are bound to A; the lookup for A returned the second
C24_Witness ==
    /\ Bindings(OnDisk(mdFile)) = {<<"U1", "A">>, <<"U2", "A">>}
    /\ dialog = Some([action |-> "SetUndocked", profile_name |-> "A", dock_uuid |-> "U2"])

----------------------------------------------------------------------------
(* C21: every operation of the daemon that needs the binding record loads   *)
(* it from the store at the time of handling and keeps nothing cached       *)
(* between requests: a binding, undocked-profile or active-profile change   *)
(* persisted by another process between two requests is used by the next    *)
(* "refresh" decision and shown by the next "status".                       *)

NameOf(profile) == IF profile = None THEN "none" ELSE Unwrap(profile)

C21_Step ==
    LET d == "daemon"
        md == OnDisk(mdFile)
    IN  \* the decision of a refresh is made on the record persisted now
        /\ (pc[d] = "auto" /\ pc'[d] # "auto" /\ call'[d].result # "Err") =>
              /\ call'[d].current = md.active_profile
              /\ call'[d].target = ExpectedTarget(md, sysfs)
              /\ pc'[d] = "apply" <=>
                    (ExpectedTarget(md, sysfs) \notin {None, md.active_profile})
        \* the record written back is the one persisted at that moment, with
        \* the active profile set
        /\ (pc[d] = "commit_load" /\ pc'[d] # "commit_load") =>
              call'[d].md = Some(md)
        /\ (pc[d] = "commit_save" /\ pc'[d] # "commit_save" /\ mdFile' # mdFile) =>
              /\ OnDisk(mdFile').active_profile = call[d].name
              /\ OnDisk(mdFile').dock_profiles = Unwrap(call[d].md).dock_profiles
              /\ OnDisk(mdFile').undocked_profile = Unwrap(call[d].md).undocked_profile
        \* a status shows the active profile persisted now
        /\ (ReadSome /\ Trim(RawRead) = STATUS) =>
              Response \in {<<"OK: ", NameOf(md.active_profile), "\n">>,
                            <<"ERROR: ", "Failed to read metadata", "\n">>}
        \* a request starts with nothing kept from the one before
        /\ \A c \in 1..Len(conns) :
              Accepts(c) => call[d] = CallNone /\ fx[d] = << >> /\ dlog = << >>

C21_State ==
    dstate = "Idle" => call["daemon"] = CallNone /\ fx["daemon"] = << >>

----------------------------------------------------------------------------
(* C25: a reader that loads a profile or the binding record while one       *)
(* writer is saving it observes either the complete previous document or    *)
(* the complete new document, never a partially written one, because the    *)
(* final path only changes by a rename of a fully written temp file.        *)

\* what is at the final path of the run's document
FinalText(f) == IF op.path \in DOMAIN f.dir THEN ReadFile(f, op.path) ELSE <<"absent">>

\* the text parses, and to a document that was saved whole: the one there
\* before, or one of the writers'
WholeDocument(text) ==
    IF op.path = metadata_path
    THEN Metadata_from_str(text) \in {Some(OldRecord)} \cup {Some(RecordOf(w)) : w \in Writers}
    ELSE Profile_from_str(text) \in {Some(OldProfile)} \cup {Some(ProfileOf(w)) : w \in Writers}

C25_State ==
    /\ FinalText(files) # <<"absent">> => WholeDocument(FinalText(files))
    /\ \A r \in reader : r.text # <<"absent">> => WholeDocument(r.text)

C25_Step ==
    FinalText(files') # FinalText(files) =>
        /\ saver["w1"].pc = "rename"
        /\ saver'["w1"].result = "Ok"
        /\ saver["w1"].temp # op.path
        /\ ReadFile(files, saver["w1"].temp) = saver["w1"].doc
        /\ FinalText(files') = saver["w1"].doc
        /\ saver["w1"].temp \notin DOMAIN files'.dir

C25_AtomicForReaders == [][C25_Step]_vars /\ []C25_State

\* the reader has the previous record whole while the writer is half way
\* through the temp file of the next
C25_Witness ==
    /\ op.path = metadata_path
    /\ reader = Some([path |-> metadata_path, text |-> Metadata_to_string(OldRecord)])
    /\ saver["w1"].pc = "write" /\ saver["w1"].at = WriteLen
    /\ Len(ReadFile(files, saver["w1"].temp)) = WriteLen
    /\ FinalText(files) = Metadata_to_string(OldRecord)

----------------------------------------------------------------------------
(* C26: when two processes save the binding record, or the same profile,    *)
(* concurrently, in every interleaving of their write-temp-file and rename  *)
(* steps the file at the final path always holds a complete document        *)
(* written by one of them: an update may be lost, but a truncated or mixed  *)
(* document is never visible at the final path.                             *)

C26_FinalAlwaysWhole ==
    op.path \in DOMAIN files.dir =>
        \E w \in Writers :
            ReadFile(files, op.path) \in
                {Metadata_to_string(OldRecord), Profile_to_string(OldProfile),
                 Metadata_to_string(RecordOf(w)), Profile_to_string(ProfileOf(w))}

----------------------------------------------------------------------------
(* C27: a saved profile loads back as it was saved, whatever else is saved
   or deleted *)

\* C27: right after Profile::save returned Ok, Profile::load of that name
\* returns the profile that was saved, field by field; and what
\* Profile::load returns for a name changes with no operation but a save or
\* a delete of that very name that returned Ok: not with a save or a delete
\* of another name, a save that failed, a save of the binding record, a load
\* or a listing.
C27_Step ==
    /\ (op'.kind = "save" /\ op'.result = "Ok") =>
           Profile_load(files', op'.name) = [ok |-> TRUE, profile |-> op'.arg]
    /\ \A name \in StoreNames :
           (op'.kind \in {"save", "delete"} => (op'.name # name \/ op'.result # "Ok")) =>
               Profile_load(files', name) = Profile_load(files, name)

C27_RoundTrip == [][C27_Step]_vars

\* "a" loads back with its description while "a.b" is stored next to it and
\* a failed save of "b" has left its temp file
C27_Witness ==
    /\ op.kind = "load"
    /\ op.name = PName(97)
    /\ op.result = [ok |-> TRUE,
                    profile |-> [ProfileNew(PName(97)) EXCEPT !.description = Some("x")]]
    /\ store = {PName(97), <<97, DOT, 98>>}
    /\ temp_path(profile_path(PName(98)), JSON_TMP) \in DOMAIN files.dir

----------------------------------------------------------------------------
(* C28: Profile::delete *)

InSeq(x, seq) == \E i \in 1..Len(seq) : seq[i] = x

\* a file of the profile is in the directory
HasFile(f, name) == f.exists /\ profile_path(name) \in DOMAIN f.dir

\* C28: Profile::delete of a name with no file returns Ok and changes
\* nothing.  With a file, a delete that returns Ok has removed the file of
\* that name and no other: Profile::load of the name fails, list_profiles
\* does not hold the name, every other file is there with the text it had
\* and every other profile loads as before.  After a delete that returned Ok
\* no file of the name is left, so deleting again is the first case: Ok and
\* no change.
C28_Step ==
    op'.kind = "delete" =>
        LET name == op'.name
        IN  /\ ~HasFile(files, name) => (op'.result = "Ok" /\ files' = files)
            /\ (HasFile(files, name) /\ op'.result = "Ok") =>
                  /\ DOMAIN files'.dir = DOMAIN files.dir \ {profile_path(name)}
                  /\ \A n \in DOMAIN files'.dir : ReadFile(files', n) = ReadFile(files, n)
                  /\ ~Profile_load(files', name).ok
                  /\ ~InSeq(name, list_profiles(files'))
                  /\ \A o \in StoreNames \ {name} :
                         Profile_load(files', o) = Profile_load(files, o)

C28_State ==
    (op.kind = "delete" /\ op.result = "Ok") => ~HasFile(files, op.name)

C28_Delete == [][C28_Step]_vars /\ []C28_State

\* "a" was deleted while it had a file, "a.b" and the binding record are
\* still there
C28_Witness ==
    /\ op.kind = "delete"
    /\ op.name = PName(97)
    /\ op.result = "Ok"
    /\ op.arg
    /\ HasFile(files, <<97, DOT, 98>>)
    /\ metadata_path \in DOMAIN files.dir

----------------------------------------------------------------------------
(* C29: list_profiles *)

Elems(seq) == {seq[i] : i \in 1..Len(seq)}

\* C29: after any saves and deletes, list_profiles returns the names whose
\* save returned Ok and that were not deleted since (store), in strictly
\* ascending lexicographic order, so each once; no name in it starts with
\* '.', the stem of the binding record's file and the stems of files that do
\* not end in ".json" (the temp files) are not in it; it is empty while the
\* directory does not exist; and a listing that did not fail returned just that.
C29_ListNames ==
    LET names == list_profiles(files)
    IN  /\ Elems(names) = store
        /\ \A i, j \in 1..Len(names) : i < j => StrLess(names[i], names[j])
        /\ \A i \in 1..Len(names) : Head(names[i]) # DOT
        /\ ~InSeq(file_stem(metadata_path), names)
        /\ \A n \in DOMAIN files.dir :
               extension(n) # Some(JSON) => (~InSeq(n, names) /\ ~InSeq(file_stem(n), names))
        /\ ~files.exists => names = << >>
        /\ (op.kind = "list" /\ op.result.ok) => op.result.names = names

\* a listing returned "a", "b" with the binding record, its temp file and the
\* temp file of a failed save of "a.b" in the directory
C29_Witness ==
    /\ op.kind = "list"
    /\ op.result = [ok |-> TRUE, names |-> <<PName(97), PName(98)>>]
    /\ metadata_path \in DOMAIN files.dir
    /\ temp_path(metadata_path, TMP) \in DOMAIN files.dir
    /\ temp_path(profile_path(<<97, DOT, 98>>), JSON_TMP) \in DOMAIN files.dir

----------------------------------------------------------------------------
(* C30: validate_profile_name *)

\* what the statement allows: 1 to 100 characters, no '.' in front, no '/',
\* no '\', no "..", none of < > : " | ? * and no NUL
Allowed(name) ==
    /\ Len(name) >= 1
    /\ Len(name) <= 100
    /\ name[1] # 46
    /\ \A i \in 1..Len(name) : name[i] \notin {47, 92, 60, 62, 58, 34, 124, 63, 42, 0}
    /\ \A i \in 1..(Len(name) - 1) : ~(name[i] = 46 /\ name[i + 1] = 46)

\* C30: validate_profile_name accepts a name if and only if the name is non-
\* empty, at most 100 characters long, does not start with '.', and holds no
\* '/', no '\', no "..", none of < > : " | ? * and no NUL.
C30_Validator ==
    op.kind = "validated" => (op.result = "Ok" <=> Allowed(op.name))

----------------------------------------------------------------------------
(* C31: profiles and the binding record do not share a path *)

RecordPaths == {metadata_path, temp_path(metadata_path, TMP)}
ProfilePaths(name) == {profile_path(name), temp_path(profile_path(name), JSON_TMP)}

\* the files at the given names are there or not, and read, as before
SameAt(names) ==
    \A n \in names :
        /\ path_exists(files', n) <=> path_exists(files, n)
        /\ path_exists(files, n) => ReadFile(files', n) = ReadFile(files, n)

AllPaths == DOMAIN files.dir \cup DOMAIN files'.dir

\* C31: for a name the validator accepts, the profile's path and its temp
\* path are neither the binding record's path nor its temp path.  A save of
\* the editor's profile under an accepted name (whether it succeeds or
\* fails) and a delete of an accepted name leave the binding record and its
\* temp file as they were; a save of the binding record leaves every other
\* file as it was.
C31_State ==
    (op.kind \in {"editor", "confirm", "list", "failed"}
         /\ validate_profile_name(op.name) = "Ok") =>
        ProfilePaths(op.name) \cap RecordPaths = {}

C31_Step ==
    /\ (op'.last \in {"save", "overwrite", "save_err"} /\ files' # files
            /\ validate_profile_name(op'.name) = "Ok") => SameAt(RecordPaths)
    /\ (op'.last = "delete" /\ files' # files
            /\ validate_profile_name(Unwrap(op'.deleted)) = "Ok") => SameAt(RecordPaths)
    /\ (op'.last \in {"metadata", "metadata_err"} /\ files' # files) =>
           SameAt(AllPaths \ RecordPaths)

C31_NoCollision == [][C31_Step]_vars /\ []C31_State

\* the binding record was saved next to the profile just saved under an
\* accepted name; both files are there
C31_Witness ==
    /\ op.kind = "list"
    /\ op.last = "metadata"
    /\ validate_profile_name(op.name) = "Ok"
    /\ path_exists(files, profile_path(op.name))
    /\ path_exists(files, metadata_path)
    /\ op.name # PName(97)

----------------------------------------------------------------------------
(* C32: nothing is saved under a name the validator rejects *)

\* C32: a step of the editor or of the overwrite dialog that changes a file
\* of the directory through Profile::save has a name that
\* validate_profile_name accepts, and touches the file and the temp file of
\* that name only; a step in which the validation fails changes no file and
\* leaves its message in the editor.  So every file in the directory is the
\* binding record's, was there before, or is the file or the temp file of an
\* accepted name.
C32_Step ==
    /\ (op'.last \in {"save", "overwrite", "save_err"} /\ files' # files) =>
           /\ validate_profile_name(op'.name) = "Ok"
           /\ SameAt(AllPaths \ ProfilePaths(op'.name))
    /\ (op'.last = "rejected" /\ op' # op) =>
           /\ validate_profile_name(op'.name) # "Ok"
           /\ files' = files
           /\ op'.kind = "editor"
           /\ op'.error = Some(validate_profile_name(op'.name))

C32_State ==
    op.kind \in {"editor", "confirm", "list", "failed"} =>
        \A n \in DOMAIN files.dir :
            \/ n \in RecordPaths \cup {profile_path(PName(97))}
            \/ n \in ProfilePaths(op.name) /\ validate_profile_name(op.name) = "Ok"

C32_ValidatedWrites == [][C32_Step]_vars /\ []C32_State

\* the overwrite of the stored profile "a" was confirmed and saved: the
\* name had passed the check in the editor and again in the dialog
C32_Witness ==
    /\ op.kind = "list"
    /\ op.last = "overwrite"
    /\ op.name = PName(97)
    /\ op.original = None
    /\ ReadFile(files, profile_path(op.name)) = Profile_to_string(ProfileNew(op.name))

----------------------------------------------------------------------------
(* C33: which entries list_all_devices returns, and their role *)

DeviceIds(seq) == {seq[i].device_id : i \in 1..Len(seq)}

\* C33: list_all_devices returns one descriptor for each present entry whose
\* name holds '-' and for no other entry ("domain0" is left out); a
\* descriptor is the host iff its device_id ends with "-0", a peripheral
\* otherwise: "0-0" is the host, "0-1" a peripheral.
C33_Enumerates ==
    op.kind = "devices" =>
        /\ DeviceIds(op.result) =
               {n \in DOMAIN sysfs : sysfs[n] # None /\ \E i \in 1..Len(n) : n[i] = 45}
        /\ Len(op.result) = Cardinality(DeviceIds(op.result))
        /\ <<100, 111, 109, 97, 105, 110, 48>> \notin DeviceIds(op.result)
        /\ \A i \in 1..Len(op.result) :
               LET d == op.result[i]
                   n == d.device_id
               IN  /\ d.is_host <=> (Len(n) >= 2 /\ n[Len(n) - 1] = 45 /\ n[Len(n)] = 48)
                   /\ is_dock(d) <=> ~d.is_host
                   /\ n = <<48, 45, 48>> => d.is_host
                   /\ n = <<48, 45, 49>> => is_dock(d)

\* "domain0", "0-0" and "0-1" were all present and two descriptors came back
C33_Witness ==
    /\ op.kind = "devices"
    /\ sysfs[Domain0] # None
    /\ DeviceIds(op.result) = {<<48, 45, 48>>, <<48, 45, 49>>}

----------------------------------------------------------------------------
(* C34: the order of list_all_devices, detect_docks *)

Ascending(seq) ==
    \A i, j \in 1..Len(seq) : i < j => StrLess(seq[i].device_id, seq[j].device_id)

\* C34: list_all_devices returns its descriptors in ascending order of
\* device_id, and returns the same sequence for every order in which the
\* directory can be read; detect_docks returns the peripherals of that
\* sequence, all of them and nothing else, in the same ascending order.
C34_Sorted ==
    op.kind = "devices" =>
        /\ Ascending(op.result)
        /\ \A order \in ReadOrders(sysfs) : list_all_devices_read(sysfs, order) = op.result
        /\ op.result = list_all_devices(sysfs)
        /\ Ascending(op.docks)
        /\ {op.docks[i] : i \in 1..Len(op.docks)} =
               {d \in {op.result[i] : i \in 1..Len(op.result)} : ~d.is_host}
        /\ op.docks = detect_docks(sysfs)

\* the directory was read with "0-2" before "0-1" before "0-0"; the host and
\* both docks came back in ascending order
C34_Witness ==
    /\ op.kind = "devices"
    /\ Len(op.result) = 3
    /\ Len(op.docks) = 2
    /\ \E i, j, k \in 1..Len(op.order) :
           /\ i < j /\ j < k
           /\ op.order[i] = <<48, 45, 50>>
           /\ op.order[j] = <<48, 45, 49>>
           /\ op.order[k] = <<48, 45, 48>>

----------------------------------------------------------------------------
(* C35: every client that sent a command is served *)

\* C35: a connection on which the client has sent its command is eventually
\* handled to the end by the daemon (the response is written or the write
\* fails on a client that left), whatever the connections before it do.
C35_EventuallyServed ==
    \A c \in 1..MaxConns :
        (c <= Len(conns) /\ conns[c].sent /\ conns[c].status = "queued")
            ~> (c <= Len(conns) /\ conns[c].status = "done")

----------------------------------------------------------------------------
(* C36: the cleanup at exit removes the instance's own socket only *)

\* C36: when the process of an instance ends, the socket file at the path
\* stays where it is if it is the socket of another instance that is
\* listening on it.
C36_OwnSocketOnly ==
    [][\A i \in Instances :
          Ends(i) =>
              \A j \in Instances \ {i} :
                  (sockFile = Some(j) /\ inst[j].listening) => sockFile' = sockFile]_vars

----------------------------------------------------------------------------
(* C37: what the commit of an apply writes into the binding record *)

\* C37: the commit of apply_profile_inner loads the record that is
\* persisted at that moment, edits of other processes made since the
\* decision included; the record a successful apply saves has the applied
\* name as active_profile and the time of the save as last_modified, and its
\* dock_profiles and undocked_profile are those of the record just loaded.
\* An apply that returns an error saves nothing.
C37_Step ==
    \A p \in Procs :
        /\ (pc[p] = "commit_load" /\ pc'[p] = "commit_save") =>
               call'[p].md = Some(OnDisk(mdFile))
        /\ (pc[p] = "commit_save" /\ pc'[p] = "ret" /\ call'[p].result = "Ok") =>
               LET loaded == Unwrap(call[p].md)
                   saved == OnDisk(mdFile')
               IN  /\ mdFile' # None
                   /\ saved.dock_profiles = loaded.dock_profiles
                   /\ saved.undocked_profile = loaded.undocked_profile
                   /\ saved.active_profile = call[p].name
                   /\ saved.last_modified = Some(now)
        /\ (pc[p] \in {"apply", "commit_save"} /\ pc'[p] = "ret" /\ call'[p].result = "Err") =>
               mdFile' = mdFile

C37_CommitFrame == [][C37_Step]_vars

\* the refresh decided for A, the profile U1 was bound to; while it was
\* applied another process bound U1 to B; the record saved by the apply has
\* A active and U1 still bound to B
C37_Witness ==
    /\ pc["daemon"] = "ret"
    /\ call["daemon"].result = "Ok"
    /\ call["daemon"].name = Some("A")
    /\ sysfs = OneDock
    /\ mdFile # None
    /\ OnDisk(mdFile).active_profile = Some("A")
    /\ OnDisk(mdFile).dock_profiles["U1"] = "B"

----------------------------------------------------------------------------
(* C38: a dock whose identity cannot be read selects no profile *)

HasIdentity(d) == d.uuid # ""

\* C38: whatever bindings the link operations have put in the record, the
\* decision of apply_auto over the connected docks is the decision over the
\* connected docks whose identity could be read: a dock with the empty
\* identity string counts as a dock without binding.
C38_UnreadableUnbound ==
    LET md == OnDisk(mdFile)
        docks == detect_docks(sysfs)
    IN  /\ apply_auto_decide(md, docks).kind =
               apply_auto_decide(md, SelectSeq(docks, HasIdentity)).kind
        /\ apply_auto_decide(md, docks).target =
               apply_auto_decide(md, SelectSeq(docks, HasIdentity)).target

----------------------------------------------------------------------------
(* C39: a connection closed without a command *)

\* C39: when the daemon reads from a connection whose client has closed
\* without writing, and the read does not fail, the handling ends there: no
\* response was or is prepared, nothing is written, no settle delay and no
\* apply is started, the binding record, the profile store and the clock of
\* the record are untouched, and the daemon is back in Idle.  The same goes
\* for every handling that ends on a read of zero bytes.
C39_Step ==
    /\ (ReadStep /\ ~conns[CurConn].sent /\ conns'[CurConn].io # "read_err") =>
           conns'[CurConn].status = "done" /\ conns'[CurConn].io = "eof"
    /\ (ConnEnds /\ conns'[CurConn].io = "eof") =>
           /\ pc["daemon"] = "read"
           /\ dlog = << >> /\ dlog' = << >>
           /\ Quiet
           /\ now' = now
           /\ files' = files
           /\ dstate' = "Idle"
           /\ pc'["daemon"] = "idle"

C39_ZeroBytes == [][C39_Step]_vars

\* the first client connected, wrote nothing and closed; its handling ended
\* on the read and the daemon is in Idle with the next client waiting
C39_Witness ==
    /\ Len(conns) = 2
    /\ conns[1].status = "done" /\ conns[1].io = "eof" /\ ~conns[1].sent
    /\ conns[2].status = "queued" /\ conns[2].sent
    /\ dstate = "Idle"

----------------------------------------------------------------------------
(* C40: the bindings the interface leaves behind *)

\* the docks bound to `profile` in the record `md`
DocksOf(md, profile) ==
    {uuid \in DOMAIN md.dock_profiles : md.dock_profiles[uuid] = profile}

\* C40: in the binding record left by any sequence of link, unlink, set
\* undocked and clear undocked operations of the interface, confirmed or
\* cancelled, starting from an empty record, the undocked profile is bound to
\* no dock and every profile is bound to at most one dock.
C40_Exclusive ==
    LET md == OnDisk(mdFile)
    IN  /\ \A name \in md.undocked_profile : DocksOf(md, name) = {}
        /\ \A name \in Profiles : Cardinality(DocksOf(md, name)) <= 1

\* every profile has a role of its own: A is the undocked profile, the two
\* docks are bound to B and to C, and no dialog is open
C40_Witness ==
    /\ mdFile # None
    /\ dialog = None
    /\ OnDisk(mdFile).undocked_profile = Some("A")
    /\ DOMAIN OnDisk(mdFile).dock_profiles = {"U1", "U2"}
    /\ OnDisk(mdFile).dock_profiles["U1"] = "B"
    /\ OnDisk(mdFile).dock_profiles["U2"] = "C"

====
